---- MODULE Spec2Model ----
(***************************************************************************)
(* Off-grid photovoltaic sizing kernel of the OFFGRID repository:          *)
(*   - scripts/simular_soc.py          hourly state-of-charge simulation,  *)
(*     its multi-day wrapper and analizar_resultados_soc, the statistics   *)
(*     of a simulated trace                                                *)
(*   - scripts/calcular_banco_baterias.py   battery bank sizing            *)
(*   - analisis_nubosidad_completo.py  theoretical irradiance, clearness   *)
(*     index, daily classification, runs of equally classified days and    *)
(*     the autonomy they recommend, and the order in which the public      *)
(*     methods of AnalizadorNubosidad compute what they depend on          *)
(*   - simulacion_completa_soc_baterias.py   simular_soc, the kWh          *)
(*     simulation without efficiencies                                     *)
(* Python floats are modelled as exact rationals <<numerator, denominator>> *)
(* in lowest terms with a positive denominator, so every formula below is  *)
(* a statement about the real-number result of the code's arithmetic.      *)
(***************************************************************************)
EXTENDS Integers, Sequences, FiniteSets, TLC

VARIABLES
    (* simular_soc_diario *)
    soc_pc,                    \* "loop", "return", "IndexError", "ValueError", or "idle"
    soc_args,                  \* the call's arguments (the two series by their lengths)
    i,                         \* loop index of `for i in range(len(generacion_df))`
    energia_bateria,           \* stored energy, Wh
    energia_cargada_total,
    energia_descargada_total,
    resultados,                \* the rows appended so far (the eight result lists)
    attrs,                     \* resultados.attrs
    (* analizar_resultados_soc *)
    umbral_critico,            \* the critical SOC the caller wants counted
    analisis,                  \* the returned dict
    (* calcular_banco_baterias *)
    banco_pc,                  \* "call", "return", "ZeroDivisionError", or "idle"
    banco_args,
    banco_resultados,
    (* analizar_rachas_consecutivas *)
    rachas_pc,                 \* "call", "return", or "idle"
    clasificacion,             \* datos_ordenados['clasificacion']
    fechas,                    \* datos_ordenados['fecha'], as day numbers
    rachas,                    \* the three run lists
    racha_maxima,              \* dias_consecutivos_max, fecha_inicio, fecha_fin
    autonomia,                 \* the recommended autonomy each output states
    (* calcular_radiacion_teorica *)
    teo_pc,                    \* "call", "return", or "idle"
    geometria,                 \* per sample: the sines and cosines of its angles
    radiacion,                 \* per sample: cos_zenital, masa_aire, ghi_teorico
    (* calcular_indice_claridad, clasificar_dias *)
    nub_pc,                    \* "cargado", "indice", "clasificado", "ValueError", "idle"
    datos,                     \* self.datos: mes, dia, ghi, ghi_teorico per sample
    indice_claridad,           \* self.datos['indice_claridad']
    clasificacion_diaria,      \* self.clasificacion_diaria
    (* analizar_dia_especifico *)
    dia_especifico,            \* the day asked for and the dict (or None) returned
    (* simular_soc_multiple_dias *)
    multi_pc,                  \* "call", "return", "ValueError", or "idle"
    multi_args,                \* the one-day series and the scalar arguments
    multi_resultados,          \* the returned frame: its index and its rows
    (* simular_soc of simulacion_completa_soc_baterias.py *)
    comp_pc,                   \* "call", "return", "KeyError", or "idle"
    df_gen,                    \* df_gen['Generacion_PV'], Wh per step
    df_load,                   \* df_load['Consumo'], Wh per step
    comp_resultados,           \* the SOC column of the returned frame
    (* AnalizadorNubosidad *)
    analizador,                \* the attributes of self
    llamadas                   \* the public methods called so far

soc_vars == <<soc_pc, soc_args, i, energia_bateria, energia_cargada_total,
              energia_descargada_total, resultados, attrs, umbral_critico, analisis>>
banco_vars == <<banco_pc, banco_args, banco_resultados>>
rachas_vars == <<rachas_pc, clasificacion, fechas, rachas, racha_maxima, autonomia>>
teo_vars == <<teo_pc, geometria, radiacion>>
nub_vars == <<nub_pc, datos, indice_claridad, clasificacion_diaria, dia_especifico>>
multi_vars == <<multi_pc, multi_args, multi_resultados>>
comp_vars == <<comp_pc, df_gen, df_load, comp_resultados>>
ana_vars == <<analizador, llamadas>>
vars == <<soc_vars, banco_vars, rachas_vars, teo_vars, nub_vars,
          multi_vars, comp_vars, ana_vars>>

(***************************************************************************)
(* Bounds of the model.                                                    *)
(***************************************************************************)
MaxHoras == 3
MaxAutonomia == 3
MaxDias == 5
MaxMuestrasTeoricas == 2
MaxMuestras == 3

(***************************************************************************)
(* Exact arithmetic standing for the float operators of the source.        *)
(***************************************************************************)
Abs(x) == IF x < 0 THEN -x ELSE x

RECURSIVE GCD(_, _)
GCD(a, b) == IF b = 0 THEN a ELSE GCD(b, a % b)

Frac(n, d) ==
    LET s == IF d < 0 THEN -1 ELSE 1
        g == GCD(Abs(n), Abs(d))
    IN  <<(s * n) \div g, (s * d) \div g>>

Num(x) == Frac(x, 1)
Zero == Num(0)
(* Sums go over the least common denominator and products are reduced     *)
(* crosswise first, so that no intermediate value is larger than needed.   *)
Add(x, y) ==
    LET g == GCD(x[2], y[2])
    IN  Frac(x[1] * (y[2] \div g) + y[1] * (x[2] \div g), (x[2] \div g) * y[2])
Sub(x, y) == Frac(x[1] * y[2] - y[1] * x[2], x[2] * y[2])
Mul(x, y) ==
    LET g1 == GCD(Abs(x[1]), y[2])
        g2 == GCD(Abs(y[1]), x[2])
    IN  <<(x[1] \div g1) * (y[1] \div g2), (x[2] \div g2) * (y[2] \div g1)>>
Div(x, y) == Mul(x, Frac(y[2], y[1]))
FAbs(x) == <<Abs(x[1]), x[2]>>
Lt(x, y) == x[1] * y[2] < y[1] * x[2]
Le(x, y) == x[1] * y[2] <= y[1] * x[2]
FMax(x, y) == IF Lt(x, y) THEN y ELSE x
FMin(x, y) == IF Lt(y, x) THEN y ELSE x

(* The sum of the entries of a column at the row numbers S. *)
RECURSIVE Suma(_, _)
Suma(col, S) ==
    IF S = {} THEN Zero
    ELSE LET k == CHOOSE x \in S : TRUE
         IN  Add(col[k], Suma(col, S \ {k}))

(***************************************************************************)
(* scripts/simular_soc.py : simular_soc_diario                             *)
(***************************************************************************)
Potencias == {Num(0), Num(300), Num(2000)}
(* <<generacion, consumo>> of one hour: every unequal pair, and one equal  *)
(* pair for the zero balance.                                              *)
ParesPotencia ==
    {par \in Potencias \X Potencias : par[1] # par[2] \/ par[1] = Num(300)}
Capacidades == {Num(1000)}
NivelesSoc == {Num(0), Frac(1, 5), Frac(1, 2), Num(1)}
Eficiencias == {Frac(8, 10), Frac(9, 10), Num(1)}
(* <<eficiencia_carga, eficiencia_descarga>>: a lossless battery and one   *)
(* whose two efficiencies differ.                                          *)
ParesEficiencia == {<<Num(1), Num(1)>>, <<Frac(8, 10), Frac(9, 10)>>}

SocArgs ==
    {a \in [capacidad_almacenamiento_wh : Capacidades,
            soc_inicial : NivelesSoc \ {Num(0), Frac(1, 5)},
            soc_minimo : NivelesSoc \ {Num(1)},
            eficiencia_carga : Eficiencias,
            eficiencia_descarga : Eficiencias,
            len_generacion : 0..MaxHoras,
            len_demanda : 0..MaxHoras] :
        <<a.eficiencia_carga, a.eficiencia_descarga>> \in ParesEficiencia}

EnergiaCargada(balance, eficiencia_carga) == Mul(balance, eficiencia_carga)

(* Variant: the deficit multiplied by the discharge efficiency. *)
EnergiaDescargadaPorEficiencia(balance, eficiencia_descarga) ==
    Mul(FAbs(balance), eficiencia_descarga)

(* Variant: the deficit taken with its sign, without abs(). *)
EnergiaDescargadaConSigno(balance, eficiencia_descarga) == Div(balance, eficiencia_descarga)

EnergiaDescargada(balance, eficiencia_descarga) == Div(FAbs(balance), eficiencia_descarga)

(* Variant: the floor taken as the fraction itself, not as energy. *)
EnergiaMinimaSinCapacidad(soc_minimo, capacidad) == soc_minimo

EnergiaMinima(soc_minimo, capacidad) == Mul(soc_minimo, capacidad)

(* Variant: only the upper limit is applied. *)
LimitarSinPiso(energia, soc_minimo, capacidad) == FMin(capacidad, energia)

(* Variant: only the lower limit is applied. *)
LimitarSinTecho(energia, soc_minimo, capacidad) ==
    FMax(EnergiaMinima(soc_minimo, capacidad), energia)

Limitar(energia, soc_minimo, capacidad) ==
    FMax(EnergiaMinima(soc_minimo, capacidad), FMin(capacidad, energia))

Fila(hora, generacion, consumo, balance, energia, soc, cargada, descargada) ==
    [Hora |-> hora, Generacion_PV |-> generacion, Consumo |-> consumo,
     Balance_Energetico |-> balance, Energia_Bateria_Wh |-> energia, SOC |-> soc,
     Energia_Cargada |-> cargada, Energia_Descargada |-> descargada]

RECURSIVE MinSoc(_)
MinSoc(filas) ==
    IF Len(filas) = 1 THEN filas[1].SOC
    ELSE FMin(filas[1].SOC, MinSoc(Tail(filas)))

RECURSIVE MaxSoc(_)
MaxSoc(filas) ==
    IF Len(filas) = 1 THEN filas[1].SOC
    ELSE FMax(filas[1].SOC, MaxSoc(Tail(filas)))

SocIdle ==
    /\ soc_pc = "idle"
    /\ soc_args = <<>>
    /\ i = 0
    /\ energia_bateria = Zero
    /\ energia_cargada_total = Zero
    /\ energia_descargada_total = Zero
    /\ resultados = <<>>
    /\ attrs = <<>>
    /\ umbral_critico = <<>>
    /\ analisis = <<>>

SocInit ==
    /\ soc_pc = "loop"
    /\ soc_args \in SocArgs
    /\ i = 0
    /\ energia_bateria = Mul(soc_args.soc_inicial, soc_args.capacidad_almacenamiento_wh)
    /\ energia_cargada_total = Zero
    /\ energia_descargada_total = Zero
    /\ resultados = <<>>
    /\ attrs = <<>>
    /\ umbral_critico = <<>>
    /\ analisis = <<>>

(* One iteration of the loop: lines 52-87. *)
SimularHora ==
    /\ soc_pc = "loop"
    /\ i < soc_args.len_generacion
    /\ i < soc_args.len_demanda
    /\ \E par \in ParesPotencia :
         LET generacion == par[1]
             consumo == par[2]
             balance == Sub(generacion, consumo)
             carga == Lt(Zero, balance)
             energia_cargada ==
                 IF carga THEN EnergiaCargada(balance, soc_args.eficiencia_carga)
                 ELSE Zero
             energia_descargada ==
                 IF carga THEN Zero
                 ELSE EnergiaDescargada(balance, soc_args.eficiencia_descarga)
             energia ==
                 Limitar(IF carga THEN Add(energia_bateria, energia_cargada)
                         ELSE Sub(energia_bateria, energia_descargada),
                         soc_args.soc_minimo, soc_args.capacidad_almacenamiento_wh)
             soc == Div(energia, soc_args.capacidad_almacenamiento_wh)
         IN  /\ energia_bateria' = energia
             /\ energia_cargada_total' = Add(energia_cargada_total, energia_cargada)
             /\ energia_descargada_total' = Add(energia_descargada_total, energia_descargada)
             /\ resultados' = Append(resultados,
                    Fila(i, generacion, consumo, balance, energia, soc,
                         energia_cargada, energia_descargada))
    /\ i' = i + 1
    /\ UNCHANGED <<soc_pc, soc_args, attrs, umbral_critico, analisis, banco_vars, rachas_vars, teo_vars, nub_vars,
                   multi_vars, comp_vars, ana_vars>>

(* demanda_df.iloc[i] past the end of a shorter demand series: line 55. *)
DemandaFueraDeRango ==
    /\ soc_pc = "loop"
    /\ i < soc_args.len_generacion
    /\ i >= soc_args.len_demanda
    /\ soc_pc' = "IndexError"
    /\ UNCHANGED <<soc_args, i, energia_bateria, energia_cargada_total,
                   energia_descargada_total, resultados, attrs, umbral_critico, analisis,
                   banco_vars, rachas_vars, teo_vars, nub_vars,
                   multi_vars, comp_vars, ana_vars>>

(* After the loop: lines 89-107; min() of an empty list raises ValueError. *)
Estadisticas ==
    /\ soc_pc = "loop"
    /\ i >= soc_args.len_generacion
    /\ IF resultados = <<>>
       THEN /\ soc_pc' = "ValueError"
            /\ attrs' = [energia_cargada_total_kwh |-> Div(energia_cargada_total, Num(1000)),
                         energia_descargada_total_kwh |-> Div(energia_descargada_total, Num(1000))]
       ELSE /\ soc_pc' = "return"
            /\ attrs' = [energia_cargada_total_kwh |-> Div(energia_cargada_total, Num(1000)),
                         energia_descargada_total_kwh |-> Div(energia_descargada_total, Num(1000)),
                         soc_minimo_alcanzado |-> MinSoc(resultados),
                         soc_maximo_alcanzado |-> MaxSoc(resultados)]
    /\ UNCHANGED <<soc_args, i, energia_bateria, energia_cargada_total,
                   energia_descargada_total, resultados, umbral_critico, analisis,
                   banco_vars, rachas_vars, teo_vars, nub_vars,
                   multi_vars, comp_vars, ana_vars>>

(* UMBRALES_EVALUACION['soc_critico'] of config.py, line 39, and a value   *)
(* a caller may want instead.                                              *)
UmbralesCriticos == {Frac(3, 10), Frac(1, 2)}

Columna(df, campo) == [t \in 1..Len(df) |-> df[t][campo]]

(* Line 184: the literal 0.3, whatever threshold the caller has in mind. *)
HorasCriticas(df) == Cardinality({t \in 1..Len(df) : Lt(df[t].SOC, Frac(3, 10))})

(* Lines 187-188. *)
EnergiaTotalKwh(df, campo) == Div(Suma(Columna(df, campo), 1..Len(df)), Num(1000))

(* Variant: with nothing charged the efficiency is 1. *)
EficienciaSistemaUnoSinCarga(energia_descargada_kwh, energia_cargada_kwh) ==
    IF Lt(Zero, energia_cargada_kwh)
    THEN Div(energia_descargada_kwh, energia_cargada_kwh)
    ELSE Num(1)

(* Line 191. *)
EficienciaSistema(energia_descargada_kwh, energia_cargada_kwh) ==
    IF Lt(Zero, energia_cargada_kwh)
    THEN Div(energia_descargada_kwh, energia_cargada_kwh)
    ELSE Zero

(* analizar_resultados_soc, lines 167-201, on the frame simular_soc_diario *)
(* returned; the function has no threshold parameter and reads no          *)
(* configuration.                                                          *)
AnalizarResultadosSoc ==
    /\ soc_pc = "return"
    /\ analisis = <<>>
    /\ umbral_critico' \in UmbralesCriticos
    /\ analisis' =
           [SOC_Minimo |-> MinSoc(resultados),
            SOC_Maximo |-> MaxSoc(resultados),
            SOC_Promedio |-> Div(Suma(Columna(resultados, "SOC"), 1..Len(resultados)),
                                 Num(Len(resultados))),
            Horas_Criticas |-> HorasCriticas(resultados),
            Energia_Cargada_kWh |-> EnergiaTotalKwh(resultados, "Energia_Cargada"),
            Energia_Descargada_kWh |-> EnergiaTotalKwh(resultados, "Energia_Descargada"),
            Eficiencia_Sistema |->
                EficienciaSistema(EnergiaTotalKwh(resultados, "Energia_Descargada"),
                                  EnergiaTotalKwh(resultados, "Energia_Cargada"))]
    /\ UNCHANGED <<soc_pc, soc_args, i, energia_bateria, energia_cargada_total,
                   energia_descargada_total, resultados, attrs,
                   banco_vars, rachas_vars, teo_vars, nub_vars,
                   multi_vars, comp_vars, ana_vars>>

SocNext == SimularHora \/ DemandaFueraDeRango \/ Estadisticas \/ AnalizarResultadosSoc

(***************************************************************************)
(* scripts/calcular_banco_baterias.py : calcular_banco_baterias            *)
(***************************************************************************)
EnergiasDiarias == {Num(0), Num(5), Num(10)}
VoltajesSistema == {Num(-48), Num(0), Num(12), Num(24), Num(48)}
ProfundidadesDescarga == {Frac(-1, 2), Num(0), Frac(1, 2), Frac(4, 5), Num(1), Frac(3, 2)}
VoltajesBateria == {Num(-12), Num(0), Num(6), Num(12)}
CapacidadesBateria == {Num(0), Num(100), Num(200)}

BancoArgs ==
    [energia_diaria_kwh : EnergiasDiarias,
     dias_autonomia : 1..MaxAutonomia,
     voltaje_sistema : VoltajesSistema,
     profundidad_descarga : ProfundidadesDescarga,
     voltaje_bateria : VoltajesBateria,
     capacidad_bateria_ah : CapacidadesBateria]

(* Python 3 round(x): the nearest integer, ties to the even one. *)
Round(x) ==
    LET piso == x[1] \div x[2]
        resto2 == 2 * (x[1] - piso * x[2])
    IN  IF resto2 < x[2] THEN piso
        ELSE IF resto2 > x[2] THEN piso + 1
        ELSE IF piso % 2 = 0 THEN piso ELSE piso + 1

(* Variant: the autonomy days left out of the requirement. *)
CapacidadTotalAhUnDia(energia_diaria_kwh, dias_autonomia, voltaje_sistema, profundidad_descarga) ==
    Div(Mul(energia_diaria_kwh, Num(1000)), Mul(voltaje_sistema, profundidad_descarga))

CapacidadTotalAh(energia_diaria_kwh, dias_autonomia, voltaje_sistema, profundidad_descarga) ==
    Div(Mul(Mul(energia_diaria_kwh, Num(1000)), Num(dias_autonomia)),
        Mul(voltaje_sistema, profundidad_descarga))

NumSerie(voltaje_sistema, voltaje_bateria) == Div(voltaje_sistema, voltaje_bateria)

NumParalelo(capacidad_total_ah, capacidad_bateria_ah) ==
    Div(capacidad_total_ah, capacidad_bateria_ah)

TotalBaterias(num_serie, num_paralelo) == Mul(num_serie, num_paralelo)

(* Variant: the capacity of the rounded number of batteries. *)
CapacidadRealKwhRedondeada(total_baterias, capacidad_bateria_ah, voltaje_bateria) ==
    Div(Mul(Mul(Num(Round(total_baterias)), capacidad_bateria_ah), voltaje_bateria), Num(1000))

CapacidadRealKwh(total_baterias, capacidad_bateria_ah, voltaje_bateria) ==
    Div(Mul(Mul(total_baterias, capacidad_bateria_ah), voltaje_bateria), Num(1000))

(* The dict returned at lines 44-54, keyed here by identifiers:            *)
(*   "Capacidad Total [Ah]" capacidad_total_ah, "Nº Baterías en Serie"     *)
(*   num_serie, "Nº Baterías en Paralelo" num_paralelo, "Total Baterías"   *)
(*   total_baterias, "Capacidad Real [kWh]" capacidad_real_kwh, "Energía   *)
(*   Diaria [kWh]" energia_diaria_kwh, "Días de Autonomía" dias_autonomia, *)
(*   "Voltaje Sistema [V]" voltaje_sistema, "Profundidad Descarga"         *)
(*   profundidad_descarga.                                                 *)
ResultadoBanco(a) ==
    LET capacidad_total_ah ==
            CapacidadTotalAh(a.energia_diaria_kwh, a.dias_autonomia,
                             a.voltaje_sistema, a.profundidad_descarga)
        num_serie == NumSerie(a.voltaje_sistema, a.voltaje_bateria)
        num_paralelo == NumParalelo(capacidad_total_ah, a.capacidad_bateria_ah)
        total_baterias == TotalBaterias(num_serie, num_paralelo)
        capacidad_real_kwh ==
            CapacidadRealKwh(total_baterias, a.capacidad_bateria_ah, a.voltaje_bateria)
    IN  [capacidad_total_ah |-> capacidad_total_ah,
         num_serie |-> Round(num_serie),
         num_paralelo |-> Round(num_paralelo),
         total_baterias |-> Round(total_baterias),
         capacidad_real_kwh |-> capacidad_real_kwh,
         energia_diaria_kwh |-> a.energia_diaria_kwh,
         dias_autonomia |-> a.dias_autonomia,
         voltaje_sistema |-> a.voltaje_sistema,
         profundidad_descarga |-> a.profundidad_descarga]

(* A float division by zero at line 30, 33 or 36. *)
DivisionPorCero(a) ==
    \/ Mul(a.voltaje_sistema, a.profundidad_descarga) = Zero
    \/ a.voltaje_bateria = Zero
    \/ a.capacidad_bateria_ah = Zero

BancoInit ==
    /\ banco_pc = "call"
    /\ banco_args \in BancoArgs
    /\ banco_resultados = <<>>

(* The whole function body, lines 29-54: it checks none of its arguments. *)
CalcularBancoBaterias ==
    /\ banco_pc = "call"
    /\ IF DivisionPorCero(banco_args)
       THEN /\ banco_pc' = "ZeroDivisionError"
            /\ UNCHANGED banco_resultados
       ELSE /\ banco_pc' = "return"
            /\ banco_resultados' = ResultadoBanco(banco_args)
    /\ UNCHANGED <<banco_args, soc_vars, rachas_vars, teo_vars, nub_vars,
                   multi_vars, comp_vars, ana_vars>>

BancoNext == CalcularBancoBaterias

BancoIdle == banco_pc = "idle" /\ banco_args = <<>> /\ banco_resultados = <<>>
(***************************************************************************)
(* analisis_nubosidad_completo.py : encontrar_rachas (the same scan is     *)
(* repeated in perfil_demanda/GHI_Gmod.py, lines 1355-1372)                *)
(***************************************************************************)
Etiquetas == {"Muy nuboso", "Parcialmente nuboso", "Despejado"}

RECURSIVE SeriesHasta(_)
SeriesHasta(n) ==
    IF n = 0 THEN {<<>>}
    ELSE SeriesHasta(n - 1) \cup
         {Append(s, e) : s \in {x \in SeriesHasta(n - 1) : Len(x) = n - 1}, e \in Etiquetas}

(* The loop of lines 219-225 from position k (1-based here; the indices    *)
(* stored in a run are enumerate()'s 0-based ones), then lines 227-230.    *)
RECURSIVE RecorrerSerie(_, _, _, _, _)
RecorrerSerie(serie, tipo_dia, k, lista, racha_actual) ==
    IF k > Len(serie)
    THEN IF racha_actual # <<>> THEN Append(lista, racha_actual) ELSE lista
    ELSE IF serie[k] = tipo_dia
         THEN RecorrerSerie(serie, tipo_dia, k + 1, lista, Append(racha_actual, k - 1))
         ELSE IF racha_actual # <<>>
              THEN RecorrerSerie(serie, tipo_dia, k + 1, Append(lista, racha_actual), <<>>)
              ELSE RecorrerSerie(serie, tipo_dia, k + 1, lista, racha_actual)

(* Variant: the run still open at the end of the series is dropped. *)
encontrar_rachas_sin_ultima(serie, tipo_dia) ==
    LET todas == RecorrerSerie(serie, tipo_dia, 1, <<>>, <<>>)
    IN  IF serie # <<>> /\ serie[Len(serie)] = tipo_dia
        THEN SubSeq(todas, 1, Len(todas) - 1)
        ELSE todas

(* Variant: a run open at the end of the series continues with the run    *)
(* that starts the series, as if 1 January followed 31 December.           *)
encontrar_rachas_circular(serie, tipo_dia) ==
    LET todas == RecorrerSerie(serie, tipo_dia, 1, <<>>, <<>>)
    IN  IF Len(todas) >= 2 /\ serie[1] = tipo_dia /\ serie[Len(serie)] = tipo_dia
        THEN <<todas[Len(todas)] \o todas[1]>> \o SubSeq(todas, 2, Len(todas) - 1)
        ELSE todas

encontrar_rachas(serie, tipo_dia) == RecorrerSerie(serie, tipo_dia, 1, <<>>, <<>>)

(* The dates of the classified days: lines 187-189 build one date per      *)
(* (mes, dia) group, so they are distinct, and line 213 sorts by them.     *)
MaxFecha == MaxDias + 1

RECURSIVE Ordenar(_)
Ordenar(S) ==
    IF S = {} THEN <<>>
    ELSE LET m == CHOOSE x \in S : \A y \in S : x <= y
         IN  <<m>> \o Ordenar(S \ {m})

(* Python's None for the two dates of lines 260-261. *)
None == 0

(* The printed recommendation: <<n>> is "n d\'ias", <<2, 3>> is            *)
(* "2-3 d\'ias (est\'andar)", <<>> is nothing printed yet.                 *)
SinRecomendacion == [consola |-> <<>>, reporte |-> <<>>, grafico |-> <<>>]

RachasInit ==
    /\ rachas_pc = "call"
    /\ clasificacion \in SeriesHasta(MaxDias)
    /\ \E S \in SUBSET (1..MaxFecha) :
           /\ Cardinality(S) = Len(clasificacion)
           /\ fechas = Ordenar(S)
    /\ rachas = <<>>
    /\ racha_maxima = <<>>
    /\ autonomia = SinRecomendacion

(* Variant: the first very-cloudy run is taken for the longest one. *)
RachaMasLargaPrimera(lista) == lista[1]

(* Line 239, max(rachas_muy_nuboso, key=len): the first run of the         *)
(* greatest length.                                                        *)
RachaMasLarga(lista) ==
    lista[CHOOSE k \in 1..Len(lista) :
              /\ \A j \in 1..Len(lista) : Len(lista[j]) <= Len(lista[k])
              /\ \A j \in 1..(k - 1) : Len(lista[j]) < Len(lista[k])]

(* Variant: without a very-cloudy run the two dates are those of the       *)
(* whole series instead of None.                                           *)
RachaMaximaSinNone(rachas_muy_nuboso, f) ==
    IF rachas_muy_nuboso # <<>>
    THEN LET racha_mas_larga == RachaMasLarga(rachas_muy_nuboso)
         IN  [dias_consecutivos_max |-> Len(racha_mas_larga),
              fecha_inicio |-> f[racha_mas_larga[1] + 1],
              fecha_fin |-> f[racha_mas_larga[Len(racha_mas_larga)] + 1]]
    ELSE [dias_consecutivos_max |-> 0,
          fecha_inicio |-> IF f = <<>> THEN None ELSE f[1],
          fecha_fin |-> IF f = <<>> THEN None ELSE f[Len(f)]]

(* Lines 238-261: the longest very-cloudy run and its two dates (.loc by   *)
(* the 0-based index stored in the run). *)
RachaMaxima(rachas_muy_nuboso, f) ==
    IF rachas_muy_nuboso # <<>>
    THEN LET racha_mas_larga == RachaMasLarga(rachas_muy_nuboso)
         IN  [dias_consecutivos_max |-> Len(racha_mas_larga),
              fecha_inicio |-> f[racha_mas_larga[1] + 1],
              fecha_fin |-> f[racha_mas_larga[Len(racha_mas_larga)] + 1]]
    ELSE [dias_consecutivos_max |-> 0, fecha_inicio |-> None, fecha_fin |-> None]

(* Lines 280-285: the console summary. *)
RecomendacionConsola(dias_consecutivos_max) ==
    IF dias_consecutivos_max > 0 THEN <<dias_consecutivos_max + 1>> ELSE <<2, 3>>

(* Line 721: the text report. *)
RecomendacionReporte(dias_consecutivos_max) == <<dias_consecutivos_max + 1>>

(* Line 558: the key-information panel of the runs figure. *)
RecomendacionGrafico(dias_consecutivos_max) == <<dias_consecutivos_max + 1>>

(* Lines 233-235: the three scans of the ordered label column. *)
TresRachas ==
    [muy_nuboso |-> encontrar_rachas(clasificacion, "Muy nuboso"),
     parcialmente_nuboso |-> encontrar_rachas(clasificacion, "Parcialmente nuboso"),
     despejado |-> encontrar_rachas(clasificacion, "Despejado")]

(* The state analizar_rachas_consecutivas leaves in self, whether it ran   *)
(* before or is run now by a caller's hasattr guard (lines 389-390 and     *)
(* 665-666).                                                               *)
Analizado == rachas_pc = "return"
RachasTrasAnalisis == IF Analizado THEN rachas ELSE TresRachas
MaximaTrasAnalisis ==
    IF Analizado THEN racha_maxima
    ELSE RachaMaxima(TresRachas.muy_nuboso, fechas)
ConsolaTrasAnalisis ==
    IF Analizado THEN autonomia.consola
    ELSE RecomendacionConsola(MaximaTrasAnalisis.dias_consecutivos_max)

(* analizar_rachas_consecutivas, lines 205-301. *)
EncontrarRachas ==
    /\ rachas_pc = "call"
    /\ rachas' = TresRachas
    /\ racha_maxima' = RachaMaxima(TresRachas.muy_nuboso, fechas)
    /\ autonomia' = [autonomia EXCEPT
                         !.consola = RecomendacionConsola(racha_maxima'.dias_consecutivos_max)]
    /\ rachas_pc' = "return"
    /\ UNCHANGED <<clasificacion, fechas, soc_vars, banco_vars, teo_vars, nub_vars,
                   multi_vars, comp_vars, ana_vars>>

(* generar_reporte_completo, lines 656-745. *)
GenerarReporteCompleto ==
    /\ rachas_pc \in {"call", "return"}
    /\ autonomia.reporte = <<>>
    /\ rachas' = RachasTrasAnalisis
    /\ racha_maxima' = MaximaTrasAnalisis
    /\ autonomia' = [autonomia EXCEPT
                         !.consola = ConsolaTrasAnalisis,
                         !.reporte = RecomendacionReporte(racha_maxima'.dias_consecutivos_max)]
    /\ rachas_pc' = "return"
    /\ UNCHANGED <<clasificacion, fechas, soc_vars, banco_vars, teo_vars, nub_vars,
                   multi_vars, comp_vars, ana_vars>>

(* generar_graficos_completos, lines 381-401, with the panel of            *)
(* _grafico_rachas_consecutivas, lines 552-561.                            *)
GenerarGraficosCompletos ==
    /\ rachas_pc \in {"call", "return"}
    /\ autonomia.grafico = <<>>
    /\ rachas' = RachasTrasAnalisis
    /\ racha_maxima' = MaximaTrasAnalisis
    /\ autonomia' = [autonomia EXCEPT
                         !.consola = ConsolaTrasAnalisis,
                         !.grafico = RecomendacionGrafico(racha_maxima'.dias_consecutivos_max)]
    /\ rachas_pc' = "return"
    /\ UNCHANGED <<clasificacion, fechas, soc_vars, banco_vars, teo_vars, nub_vars,
                   multi_vars, comp_vars, ana_vars>>

RachasNext == EncontrarRachas \/ GenerarReporteCompleto \/ GenerarGraficosCompletos

RachasIdle ==
    /\ rachas_pc = "idle"
    /\ clasificacion = <<>>
    /\ fechas = <<>>
    /\ rachas = <<>>
    /\ racha_maxima = <<>>
    /\ autonomia = <<>>

(***************************************************************************)
(* analisis_nubosidad_completo.py : calcular_radiacion_teorica             *)
(* A sample's timestamp and the latitude enter the formula only through    *)
(* sines and cosines, so a sample is given by those: exact rational points *)
(* of the unit circle stand for the angles.                                *)
(***************************************************************************)
I0 == Num(1367)
transmitancia_atmosferica == Frac(3, 4)

(* B of line 100: the first day of the year and the middle of the year. *)
AngulosDia == {[cos |-> Num(1), sin |-> Zero], [cos |-> Num(-1), sin |-> Zero]}
(* declinacion of line 105, within its range of +-23.45 degrees. *)
Equinoccio == [sin |-> Zero, cos |-> Num(1)]
Declinaciones == {Equinoccio, [sin |-> Frac(7, 25), cos |-> Frac(24, 25)],
                  [sin |-> Frac(-7, 25), cos |-> Frac(24, 25)]}
(* lat_rad of line 108: the equator, 36.87 degrees south, the south pole. *)
Ecuador == [sin |-> Zero, cos |-> Num(1)]
Latitudes == {Ecuador, [sin |-> Frac(-3, 5), cos |-> Frac(4, 5)],
              [sin |-> Num(-1), cos |-> Zero]}
(* cos(angulo_horario) of line 109 at 12 h, 8 h or 16 h, 6 h or 18 h,      *)
(* and 0 h.                                                                *)
CosenosHorarios == {Num(1), Frac(1, 2), Zero, Num(-1)}

(* Lines 101-102. *)
CorreccionDistancia(B) ==
    LET cos2B == Sub(Mul(B.cos, B.cos), Mul(B.sin, B.sin))
        sin2B == Mul(Num(2), Mul(B.sin, B.cos))
    IN  Add(Add(Add(Add(Frac(1000110, 1000000), Mul(Frac(34221, 1000000), B.cos)),
                    Mul(Frac(1280, 1000000), B.sin)),
                Mul(Frac(719, 1000000), cos2B)),
            Mul(Frac(77, 1000000), sin2B))

(* Lines 112-113, before the clamp. *)
CosZenitalBruto(g) ==
    Add(Mul(g.latitud.sin, g.declinacion.sin),
        Mul(Mul(g.latitud.cos, g.declinacion.cos), g.cos_angulo_horario))

(* Line 114. *)
CosZenital(g) == FMax(CosZenitalBruto(g), Zero)

(* numpy's x / 0 for x > 0: inf and a RuntimeWarning, which line 22        *)
(* silences; no exception is raised.                                       *)
Inf == <<1, 0>>
Reciproco(x) == IF x = Zero THEN Inf ELSE Div(Num(1), x)

(* Variant: the reciprocal is kept for every sample, without np.where. *)
MasaAireSinWhere(cos_zenital) == Reciproco(cos_zenital)

(* Lines 124-125: np.where evaluates 1 / cos_zenital for every sample and  *)
(* keeps it where altura_solar > 0; arcsin(c) > 0 exactly when c > 0.      *)
MasaAire(cos_zenital) ==
    LET inverso == Reciproco(cos_zenital)
    IN  IF Lt(Zero, cos_zenital) THEN inverso ELSE Zero

(* np.exp at an argument x <= 0, by the bound 1 / (1 - x) >= exp(x): it    *)
(* is 1 at 0, positive, at most 1 and increasing, as exp is.               *)
Exp(x) == Div(Num(1), Sub(Num(1), x))

(* Lines 117-127 for one sample. *)
RadiacionTeorica(g, cos_zenital) ==
    LET radiacion_extraterrestre == Mul(Mul(I0, CorreccionDistancia(g.B)), cos_zenital)
        ghi_teorico == Mul(radiacion_extraterrestre, transmitancia_atmosferica)
        masa_aire == MasaAire(cos_zenital)
        factor_masa_aire == Exp(Mul(Frac(-1, 10000), masa_aire))
    IN  [cos_zenital |-> cos_zenital,
         masa_aire |-> masa_aire,
         ghi_teorico |-> Mul(ghi_teorico, factor_masa_aire)]

(* The samples: every hour and latitude at the equinox, and the nights     *)
(* and the low sun of the other declinations; exact values of the other    *)
(* daytime samples do not fit 32-bit integers.                             *)
GeometriasSolares ==
    [B : AngulosDia, declinacion : {Equinoccio}, latitud : Latitudes,
     cos_angulo_horario : CosenosHorarios]
    \cup
    {g \in [B : AngulosDia, declinacion : Declinaciones, latitud : Latitudes,
            cos_angulo_horario : CosenosHorarios] : Le(CosZenitalBruto(g), Zero)}

SecuenciasHasta(S, n) == UNION {[1..k -> S] : k \in 0..n}

TeoInit ==
    /\ teo_pc = "call"
    /\ geometria \in SecuenciasHasta(GeometriasSolares, MaxMuestrasTeoricas)
    /\ radiacion = <<>>

(* calcular_radiacion_teorica, lines 85-132. *)
CalcularRadiacionTeorica ==
    /\ teo_pc = "call"
    /\ radiacion' = [k \in 1..Len(geometria) |->
                        RadiacionTeorica(geometria[k], CosZenital(geometria[k]))]
    /\ teo_pc' = "return"
    /\ UNCHANGED <<geometria, soc_vars, banco_vars, rachas_vars, nub_vars,
                   multi_vars, comp_vars, ana_vars>>

TeoNext == CalcularRadiacionTeorica

TeoIdle == teo_pc = "idle" /\ geometria = <<>> /\ radiacion = <<>>

(***************************************************************************)
(* analisis_nubosidad_completo.py : calcular_indice_claridad and           *)
(* clasificar_dias, on self.datos with its ghi_teorico column present.     *)
(***************************************************************************)
DiasDelAno == {<<1, 31>>, <<2, 1>>}
Irradiancias == {Num(0), Frac(3996, 10), Num(700), Num(1300)}
Teoricas == {Num(0), Num(1000)}
Muestras == [mes_dia : DiasDelAno, ghi : Irradiancias, ghi_teorico : Teoricas]

(* Variant: the quotient is not clipped. *)
IndiceClaridadSinRecorte(ghi, ghi_teorico) ==
    IF Lt(Zero, ghi_teorico) THEN Div(ghi, ghi_teorico) ELSE Zero

(* Lines 141-145: np.where on ghi_teorico > 0 (the quotient by 0 it also   *)
(* evaluates is discarded), then np.clip to [0, 1.2].                      *)
IndiceClaridad(ghi, ghi_teorico) ==
    LET cociente == IF Lt(Zero, ghi_teorico) THEN Div(ghi, ghi_teorico) ELSE Zero
    IN  FMin(FMax(cociente, Zero), Frac(12, 10))

ColumnaIndice(d) == [k \in 1..Len(d) |-> IndiceClaridad(d[k].ghi, d[k].ghi_teorico)]

(* Variant: every sample counts as daylight. *)
DatosLuzSinFiltro(d) == 1..Len(d)

(* Line 164: the rows with ghi > 0. *)
DatosLuz(d) == {k \in 1..Len(d) : Lt(Zero, d[k].ghi)}

(* 'mean' of line 167 and .round(3) of line 170. *)
Media(col, S) == Div(Suma(col, S), Num(Cardinality(S)))
Redondear3(x) == Frac(Round(Mul(x, Num(1000))), 1000)

(* Variant: the thresholds are strict. *)
clasificar_dia_estricto(indice) ==
    IF Lt(Frac(7, 10), indice) THEN "Despejado"
    ELSE IF Lt(Frac(4, 10), indice) THEN "Parcialmente nuboso"
    ELSE "Muy nuboso"

(* Lines 176-182. *)
clasificar_dia(indice) ==
    IF Le(Frac(7, 10), indice) THEN "Despejado"
    ELSE IF Le(Frac(4, 10), indice) THEN "Parcialmente nuboso"
    ELSE "Muy nuboso"

(* groupby(['mes', 'dia']) sorts its keys. *)
Antes(g, h) == g[1] < h[1] \/ (g[1] = h[1] /\ g[2] < h[2])

RECURSIVE OrdenarGrupos(_)
OrdenarGrupos(G) ==
    IF G = {} THEN <<>>
    ELSE LET m == CHOOSE x \in G : \A y \in G \ {x} : Antes(x, y)
         IN  <<m>> \o OrdenarGrupos(G \ {m})

(* Lines 164-184 and 187-189: one record per (mes, dia) group of the       *)
(* daylight rows; of the aggregated columns the model keeps the mean       *)
(* index, which alone decides the label.                                   *)
ClasificacionDiaria(d, col) ==
    LET luz == DatosLuz(d)
        grupos == OrdenarGrupos({d[k].mes_dia : k \in luz})
        Registro(g) ==
            LET prom == Redondear3(Media(col, {k \in luz : d[k].mes_dia = g}))
            IN  [mes |-> g[1], dia |-> g[2],
                 indice_claridad_prom |-> prom,
                 clasificacion |-> clasificar_dia(prom)]
    IN  [n \in 1..Len(grupos) |-> Registro(grupos[n])]

NubInit ==
    /\ nub_pc = "cargado"
    /\ datos \in SecuenciasHasta(Muestras, MaxMuestras)
    /\ indice_claridad = <<>>
    /\ clasificacion_diaria = <<>>
    /\ dia_especifico = <<>>

(* calcular_indice_claridad, lines 134-154. *)
CalcularIndiceClaridad ==
    /\ nub_pc = "cargado"
    /\ indice_claridad' = ColumnaIndice(datos)
    /\ nub_pc' = "indice"
    /\ UNCHANGED <<datos, clasificacion_diaria, dia_especifico, soc_vars, banco_vars, rachas_vars, teo_vars,
                   multi_vars, comp_vars, ana_vars>>

(* clasificar_dias, lines 156-203; it computes the index column first when *)
(* that is missing (lines 160-161).  Without any daylight row the frame of *)
(* line 166 is empty, and whether lines 187-189 then build an empty date   *)
(* column or raise depends on the installed pandas.                        *)
ClasificarDias ==
    /\ nub_pc \in {"cargado", "indice"}
    /\ indice_claridad' = IF nub_pc = "cargado" THEN ColumnaIndice(datos) ELSE indice_claridad
    /\ \/ /\ clasificacion_diaria' = ClasificacionDiaria(datos, indice_claridad')
          /\ nub_pc' = "clasificado"
       \/ /\ DatosLuz(datos) = {}
          /\ clasificacion_diaria' = clasificacion_diaria
          /\ nub_pc' = "ValueError"
    /\ UNCHANGED <<datos, dia_especifico, soc_vars, banco_vars, rachas_vars, teo_vars,
                   multi_vars, comp_vars, ana_vars>>

(* Lines 362-367: the thresholds, written out a second time. *)
ClasificacionDiaEspecifico(indice_promedio) ==
    IF Le(Frac(7, 10), indice_promedio) THEN "Despejado"
    ELSE IF Le(Frac(4, 10), indice_promedio) THEN "Parcialmente nuboso"
    ELSE "Muy nuboso"

(* Lines 341-379: None (<<>> here) for a day without samples or without    *)
(* daylight samples, else the dict, of which the model keeps the mean      *)
(* index of the day's daylight samples and the label.                      *)
ResultadoDiaEspecifico(d, col, mes_dia) ==
    LET datos_dia == {k \in 1..Len(d) : d[k].mes_dia = mes_dia}
        datos_luz == {k \in datos_dia : Lt(Zero, d[k].ghi)}
        indice_promedio == Media(col, datos_luz)
    IN  IF datos_dia = {} \/ datos_luz = {} THEN <<>>
        ELSE <<[clasificacion |-> ClasificacionDiaEspecifico(indice_promedio),
                indice_promedio |-> indice_promedio]>>

(* analizar_dia_especifico, lines 333-379; it computes the index column    *)
(* first when that is missing (lines 337-338).                             *)
AnalizarDiaEspecifico ==
    /\ nub_pc \in {"cargado", "indice", "clasificado"}
    /\ dia_especifico = <<>>
    /\ indice_claridad' = IF nub_pc = "cargado" THEN ColumnaIndice(datos) ELSE indice_claridad
    /\ nub_pc' = IF nub_pc = "cargado" THEN "indice" ELSE nub_pc
    /\ \E mes_dia \in DiasDelAno :
           dia_especifico' =
               [mes |-> mes_dia[1], dia |-> mes_dia[2],
                retorno |-> ResultadoDiaEspecifico(datos, indice_claridad', mes_dia)]
    /\ UNCHANGED <<datos, clasificacion_diaria, soc_vars, banco_vars, rachas_vars, teo_vars,
                   multi_vars, comp_vars, ana_vars>>

NubNext == CalcularIndiceClaridad \/ ClasificarDias \/ AnalizarDiaEspecifico

NubIdle ==
    /\ nub_pc = "idle"
    /\ datos = <<>>
    /\ indice_claridad = <<>>
    /\ clasificacion_diaria = <<>>
    /\ dia_especifico = <<>>

(***************************************************************************)
(* scripts/simular_soc.py : simular_soc_diario as a function of its two    *)
(* series, and simular_soc_multiple_dias built on it.                      *)
(***************************************************************************)
MaxHorasPorDia == 2
MaxNumDias == 2

(* Lines 57-87 for one hour: the row appended to the result lists. *)
PasoHora(energia_previa, hora, generacion, consumo, a) ==
    LET balance == Sub(generacion, consumo)
        carga == Lt(Zero, balance)
        energia_cargada ==
            IF carga THEN EnergiaCargada(balance, a.eficiencia_carga) ELSE Zero
        energia_descargada ==
            IF carga THEN Zero ELSE EnergiaDescargada(balance, a.eficiencia_descarga)
        energia ==
            Limitar(IF carga THEN Add(energia_previa, energia_cargada)
                    ELSE Sub(energia_previa, energia_descargada),
                    a.soc_minimo, a.capacidad_almacenamiento_wh)
    IN  Fila(hora, generacion, consumo, balance, energia,
             Div(energia, a.capacidad_almacenamiento_wh),
             energia_cargada, energia_descargada)

(* The loop of line 52 from position k (1-based here, i = k - 1). *)
RECURSIVE FilasDesde(_, _, _, _, _)
FilasDesde(generacion_df, demanda_df, a, k, energia_previa) ==
    IF k > Len(generacion_df) THEN <<>>
    ELSE LET fila == PasoHora(energia_previa, k - 1, generacion_df[k], demanda_df[k], a)
         IN  <<fila>> \o FilasDesde(generacion_df, demanda_df, a, k + 1,
                                    fila.Energia_Bateria_Wh)

(* simular_soc_diario, lines 11-107: the exception it ends with ("" when   *)
(* it returns) and the rows of the frame.                                  *)
simular_soc_diario(generacion_df, demanda_df, a) ==
    IF Len(demanda_df) < Len(generacion_df)
    THEN [excepcion |-> "IndexError", filas |-> <<>>]
    ELSE IF Len(generacion_df) = 0
         THEN [excepcion |-> "ValueError", filas |-> <<>>]
         ELSE [excepcion |-> "",
               filas |-> FilasDesde(generacion_df, demanda_df, a, 1,
                                    Mul(a.soc_inicial, a.capacidad_almacenamiento_wh))]

(* Lines 138-139, pd.concat([df] * num_dias, ignore_index=True). *)
RECURSIVE Concatenar(_, _)
Concatenar(df, num_dias) ==
    IF num_dias <= 0 THEN <<>> ELSE df \o Concatenar(df, num_dias - 1)

(* Lines 142-146: "D\'ia d, Hora h" as <<d, h>>. *)
TiempoTotal(horas_por_dia, num_dias) ==
    [t \in 1..(num_dias * horas_por_dia) |->
        <<((t - 1) \div horas_por_dia) + 1, (t - 1) % horas_por_dia>>]

(* Variant: every day is simulated on its own, from soc_inicial. *)
SimularDiasIndependientes(a) ==
    LET un_dia == simular_soc_diario(a.generacion_df, a.demanda_df, a)
    IN  [excepcion |-> un_dia.excepcion,
         filas |-> Concatenar(un_dia.filas, a.num_dias)]

(* Lines 152-160: one simulation of the repeated series. *)
SimularDiasSeguidos(a) ==
    simular_soc_diario(Concatenar(a.generacion_df, a.num_dias),
                       Concatenar(a.demanda_df, a.num_dias), a)

MultiArgs ==
    {a \in [generacion_df : SecuenciasHasta(Potencias, MaxHorasPorDia),
            demanda_df : SecuenciasHasta(Potencias, MaxHorasPorDia),
            capacidad_almacenamiento_wh : Capacidades,
            num_dias : 0..MaxNumDias,
            soc_inicial : NivelesSoc \ {Num(0), Frac(1, 5)},
            soc_minimo : NivelesSoc \ {Num(1)},
            eficiencia_carga : Eficiencias,
            eficiencia_descarga : Eficiencias] :
        <<a.eficiencia_carga, a.eficiencia_descarga>> \in ParesEficiencia}

MultiInit ==
    /\ multi_pc = "call"
    /\ multi_args \in MultiArgs
    /\ multi_resultados = <<>>

(* simular_soc_multiple_dias, lines 110-164.  pd.concat of an empty list   *)
(* raises ValueError, and so does the assignment of an index whose length  *)
(* is not the frame's (line 149).                                          *)
SimularSocMultipleDias ==
    /\ multi_pc = "call"
    /\ LET tiempo_total == TiempoTotal(Len(multi_args.generacion_df), multi_args.num_dias)
           demanda_multi == Concatenar(multi_args.demanda_df, multi_args.num_dias)
           simulacion == SimularDiasSeguidos(multi_args)
       IN  IF multi_args.num_dias <= 0 \/ Len(demanda_multi) # Len(tiempo_total)
           THEN multi_pc' = "ValueError" /\ multi_resultados' = multi_resultados
           ELSE IF simulacion.excepcion # ""
                THEN multi_pc' = simulacion.excepcion /\ multi_resultados' = multi_resultados
                ELSE /\ multi_pc' = "return"
                     /\ multi_resultados' = [index |-> tiempo_total,
                                             filas |-> simulacion.filas]
    /\ UNCHANGED <<multi_args, soc_vars, banco_vars, rachas_vars, teo_vars, nub_vars,
                   comp_vars, ana_vars>>

MultiNext == SimularSocMultipleDias

MultiIdle == multi_pc = "idle" /\ multi_args = <<>> /\ multi_resultados = <<>>

(***************************************************************************)
(* simulacion_completa_soc_baterias.py : simular_soc, on the module's      *)
(* parameters of lines 7-10.                                               *)
(***************************************************************************)
MaxPasos == 3

capacidad_bateria_kwh == Num(10)
soc_min == Frac(2, 10)
soc_max == Num(1)
soc_inicial_global == soc_max

(* df_gen['Generacion_PV'] and df_load['Consumo'], Wh in a step. *)
EnergiasPorPaso == {Num(0), Num(3000), Num(9000)}

(* Variant: the stored energy is limited below by 0 only. *)
EnergiaActualSinMinimo(energia_previa, generacion_pv, consumo) ==
    LET delta == Sub(Div(generacion_pv, Num(1000)), Div(consumo, Num(1000)))
    IN  FMin(FMax(Add(energia_previa, delta), Zero),
             Mul(soc_max, capacidad_bateria_kwh))

(* Lines 43-47: the stored energy, kWh, after one step. *)
EnergiaActual(energia_previa, generacion_pv, consumo) ==
    LET gen_kwh == Div(generacion_pv, Num(1000))
        consumo_kwh == Div(consumo, Num(1000))
        delta == Sub(gen_kwh, consumo_kwh)
    IN  FMin(FMax(Add(energia_previa, delta), Mul(soc_min, capacidad_bateria_kwh)),
             Mul(soc_max, capacidad_bateria_kwh))

(* The loop of lines 42-49 from step k, as the list energia_bateria[1:]. *)
RECURSIVE EnergiasDesde(_, _, _, _)
EnergiasDesde(gen, load, k, energia_previa) ==
    IF k > Len(gen) THEN <<>>
    ELSE LET energia_actual == EnergiaActual(energia_previa, gen[k], load[k])
         IN  <<energia_actual>> \o EnergiasDesde(gen, load, k + 1, energia_actual)

CompInit ==
    /\ comp_pc = "call"
    /\ df_gen \in SecuenciasHasta(EnergiasPorPaso, MaxPasos)
    /\ df_load \in SecuenciasHasta(EnergiasPorPaso, MaxPasos)
    /\ comp_resultados = <<>>

(* simular_soc, lines 39-55.  df_load.loc[i, ...] past the end of a        *)
(* shorter load frame raises KeyError (line 44); a longer one makes the    *)
(* columns of the returned frame differ in length, which the DataFrame     *)
(* constructor rejects with ValueError (line 50).                          *)
SimularSoc ==
    /\ comp_pc = "call"
    /\ IF Len(df_load) < Len(df_gen)
       THEN comp_pc' = "KeyError" /\ comp_resultados' = comp_resultados
       ELSE IF Len(df_load) > Len(df_gen)
            THEN comp_pc' = "ValueError" /\ comp_resultados' = comp_resultados
            ELSE LET energia_bateria_kwh ==
                         EnergiasDesde(df_gen, df_load, 1,
                                       Mul(soc_inicial_global, capacidad_bateria_kwh))
                 IN  /\ comp_pc' = "return"
                     /\ comp_resultados' =
                            [Generacion_PV |-> df_gen,
                             Consumo |-> df_load,
                             SOC |-> [k \in 1..Len(energia_bateria_kwh) |->
                                         Div(energia_bateria_kwh[k], capacidad_bateria_kwh)]]
    /\ UNCHANGED <<df_gen, df_load, soc_vars, banco_vars, rachas_vars, teo_vars, nub_vars,
                   multi_vars, ana_vars>>

CompNext == SimularSoc

CompIdle == comp_pc = "idle" /\ df_gen = <<>> /\ df_load = <<>> /\ comp_resultados = <<>>

(***************************************************************************)
(* analisis_nubosidad_completo.py : the methods of AnalizadorNubosidad as  *)
(* steps on the attributes of self.  What a derived column or attribute    *)
(* holds is given by what it was computed from: the load of the file and   *)
(* the latitude.  An absent column or attribute is <<>>, a present one a   *)
(* one-element tuple.  The file is taken to hold daylight samples, as a    *)
(* typical-year file does.                                                 *)
(***************************************************************************)
MaxLlamadas == 4

(* latitud of line 85: its default and the equator. *)
LatitudPorDefecto == Frac(-2314, 100)
LatitudesDeAnalisis == {LatitudPorDefecto, Num(0)}

(* self after __init__, lines 39-41, with the computations of the call in  *)
(* progress and the exception it ended with ("" when it returned).         *)
AnalizadorNuevo ==
    [datos |-> [cargado |-> FALSE, archivo |-> 0,
                ghi_teorico |-> <<>>, indice_claridad |-> <<>>],
     clasificacion_diaria |-> <<>>,
     rachas_muy_nuboso |-> <<>>,
     dia_mas_nuboso |-> <<>>,
     calculos |-> <<>>,
     excepcion |-> ""]

Hecho(self, metodo) == [self EXCEPT !.calculos = Append(@, metodo)]
Lanza(self, excepcion) == [self EXCEPT !.excepcion = excepcion]

(* Variant: loading also forgets the classification. *)
cargar_datos_y_olvidar(self) ==
    Hecho([self EXCEPT !.datos = [cargado |-> TRUE, archivo |-> @.archivo + 1,
                                  ghi_teorico |-> <<>>, indice_claridad |-> <<>>],
                       !.clasificacion_diaria = <<>>],
          "cargar_datos")

(* Lines 63-83: self.datos becomes a new frame read from the file. *)
cargar_datos(self) ==
    Hecho([self EXCEPT !.datos = [cargado |-> TRUE, archivo |-> @.archivo + 1,
                                  ghi_teorico |-> <<>>, indice_claridad |-> <<>>]],
          "cargar_datos")

(* Lines 85-132; self.datos is None before the first load (line 89). *)
calcular_radiacion_teorica(self, latitud) ==
    IF ~self.datos.cargado THEN Lanza(self, "TypeError")
    ELSE Hecho([self EXCEPT !.datos.ghi_teorico =
                                <<[archivo |-> self.datos.archivo, latitud |-> latitud]>>],
               "calcular_radiacion_teorica")

(* Variant: the theoretical irradiance is computed on every call. *)
calcular_indice_claridad_sin_guarda(self) ==
    IF ~self.datos.cargado THEN Lanza(self, "AttributeError")
    ELSE LET previo == calcular_radiacion_teorica(self, LatitudPorDefecto)
         IN  Hecho([previo EXCEPT !.datos.indice_claridad = previo.datos.ghi_teorico],
                   "calcular_indice_claridad")

(* Lines 134-154. *)
calcular_indice_claridad(self) ==
    IF ~self.datos.cargado THEN Lanza(self, "AttributeError")
    ELSE LET previo == IF self.datos.ghi_teorico = <<>>
                       THEN calcular_radiacion_teorica(self, LatitudPorDefecto)
                       ELSE self
         IN  Hecho([previo EXCEPT !.datos.indice_claridad = previo.datos.ghi_teorico],
                   "calcular_indice_claridad")

(* Lines 156-203. *)
clasificar_dias(self) ==
    IF ~self.datos.cargado THEN Lanza(self, "AttributeError")
    ELSE LET previo == IF self.datos.indice_claridad = <<>>
                       THEN calcular_indice_claridad(self)
                       ELSE self
         IN  Hecho([previo EXCEPT !.clasificacion_diaria =
                                      <<[de |-> previo.datos.indice_claridad[1],
                                         estacion |-> FALSE]>>],
                   "clasificar_dias")

(* Lines 205-301. *)
analizar_rachas_consecutivas(self) ==
    LET previo == IF self.clasificacion_diaria = <<>> THEN clasificar_dias(self) ELSE self
    IN  IF previo.excepcion # "" THEN previo
        ELSE Hecho([previo EXCEPT !.rachas_muy_nuboso =
                                      <<previo.clasificacion_diaria[1].de>>],
                   "analizar_rachas_consecutivas")

(* Lines 303-331. *)
encontrar_dias_extremos(self) ==
    LET previo == IF self.clasificacion_diaria = <<>> THEN clasificar_dias(self) ELSE self
    IN  IF previo.excepcion # "" THEN previo
        ELSE Hecho([previo EXCEPT !.dia_mas_nuboso =
                                      <<previo.clasificacion_diaria[1].de>>],
                   "encontrar_dias_extremos")

(* Line 452 of _grafico_analisis_general: a column is added to the         *)
(* classification in place.                                                *)
grafico_analisis_general(self) ==
    [self EXCEPT !.clasificacion_diaria = <<[@[1] EXCEPT !.estacion = TRUE]>>]

(* Lines 573-655 of _grafico_dias_extremos: it plots the ghi_teorico and   *)
(* indice_claridad columns of self.datos (lines 590 and 604).              *)
grafico_dias_extremos(self) ==
    LET previo == IF self.dia_mas_nuboso = <<>> THEN encontrar_dias_extremos(self) ELSE self
    IN  IF previo.excepcion # "" THEN previo
        ELSE IF previo.datos.ghi_teorico = <<>> \/ previo.datos.indice_claridad = <<>>
             THEN Lanza(previo, "KeyError")
             ELSE previo

(* Lines 381-401. *)
generar_graficos_completos(self) ==
    LET clasificado == IF self.clasificacion_diaria = <<>> THEN clasificar_dias(self)
                       ELSE self
        analizado == IF clasificado.excepcion # "" THEN clasificado
                     ELSE IF clasificado.rachas_muy_nuboso = <<>>
                          THEN analizar_rachas_consecutivas(clasificado)
                          ELSE clasificado
        dibujado == IF analizado.excepcion # "" THEN analizado
                    ELSE grafico_dias_extremos(grafico_analisis_general(analizado))
    IN  IF dibujado.excepcion # "" THEN dibujado
        ELSE Hecho(dibujado, "generar_graficos_completos")

(* Lines 656-745; line 694 reads the indice_claridad column of self.datos. *)
generar_reporte_completo(self) ==
    LET clasificado == IF self.clasificacion_diaria = <<>> THEN clasificar_dias(self)
                       ELSE self
        analizado == IF clasificado.excepcion # "" THEN clasificado
                     ELSE IF clasificado.rachas_muy_nuboso = <<>>
                          THEN analizar_rachas_consecutivas(clasificado)
                          ELSE clasificado
        extremos == IF analizado.excepcion # "" THEN analizado
                    ELSE IF analizado.dia_mas_nuboso = <<>>
                         THEN encontrar_dias_extremos(analizado)
                         ELSE analizado
    IN  IF extremos.excepcion # "" THEN extremos
        ELSE IF extremos.datos.indice_claridad = <<>> THEN Lanza(extremos, "KeyError")
             ELSE Hecho(extremos, "generar_reporte_completo")

(* Lines 747-774; after the load no stage can raise. *)
ejecutar_analisis_completo(self) ==
    generar_reporte_completo(
        generar_graficos_completos(
            encontrar_dias_extremos(
                analizar_rachas_consecutivas(
                    clasificar_dias(
                        calcular_indice_claridad(
                            cargar_datos(self)))))))

AnaInit ==
    /\ analizador = AnalizadorNuevo
    /\ llamadas = <<>>

(* A caller may call a method while the calls made so far returned. *)
Llamable ==
    /\ analizador.excepcion = ""
    /\ Len(llamadas) < MaxLlamadas

AlLlamar == [analizador EXCEPT !.calculos = <<>>]

OtrosSinCambio ==
    UNCHANGED <<soc_vars, banco_vars, rachas_vars, teo_vars, nub_vars, multi_vars, comp_vars>>

LlamarCargarDatos ==
    /\ Llamable
    /\ analizador' = cargar_datos(AlLlamar)
    /\ llamadas' = Append(llamadas, "cargar_datos")
    /\ OtrosSinCambio

LlamarCalcularRadiacionTeorica ==
    /\ Llamable
    /\ \E latitud \in LatitudesDeAnalisis :
           analizador' = calcular_radiacion_teorica(AlLlamar, latitud)
    /\ llamadas' = Append(llamadas, "calcular_radiacion_teorica")
    /\ OtrosSinCambio

LlamarCalcularIndiceClaridad ==
    /\ Llamable
    /\ analizador' = calcular_indice_claridad(AlLlamar)
    /\ llamadas' = Append(llamadas, "calcular_indice_claridad")
    /\ OtrosSinCambio

LlamarClasificarDias ==
    /\ Llamable
    /\ analizador' = clasificar_dias(AlLlamar)
    /\ llamadas' = Append(llamadas, "clasificar_dias")
    /\ OtrosSinCambio

LlamarAnalizarRachasConsecutivas ==
    /\ Llamable
    /\ analizador' = analizar_rachas_consecutivas(AlLlamar)
    /\ llamadas' = Append(llamadas, "analizar_rachas_consecutivas")
    /\ OtrosSinCambio

LlamarEncontrarDiasExtremos ==
    /\ Llamable
    /\ analizador' = encontrar_dias_extremos(AlLlamar)
    /\ llamadas' = Append(llamadas, "encontrar_dias_extremos")
    /\ OtrosSinCambio

LlamarGenerarGraficosCompletos ==
    /\ Llamable
    /\ analizador' = generar_graficos_completos(AlLlamar)
    /\ llamadas' = Append(llamadas, "generar_graficos_completos")
    /\ OtrosSinCambio

LlamarGenerarReporteCompleto ==
    /\ Llamable
    /\ analizador' = generar_reporte_completo(AlLlamar)
    /\ llamadas' = Append(llamadas, "generar_reporte_completo")
    /\ OtrosSinCambio

LlamarEjecutarAnalisisCompleto ==
    /\ Llamable
    /\ analizador' = ejecutar_analisis_completo(AlLlamar)
    /\ llamadas' = Append(llamadas, "ejecutar_analisis_completo")
    /\ OtrosSinCambio

AnaNext ==
    \/ LlamarCargarDatos
    \/ LlamarCalcularRadiacionTeorica
    \/ LlamarCalcularIndiceClaridad
    \/ LlamarClasificarDias
    \/ LlamarAnalizarRachasConsecutivas
    \/ LlamarEncontrarDiasExtremos
    \/ LlamarGenerarGraficosCompletos
    \/ LlamarGenerarReporteCompleto
    \/ LlamarEjecutarAnalisisCompleto

AnaIdle == analizador = <<>> /\ llamadas = <<>>

InitSoc == SocInit /\ BancoIdle /\ RachasIdle /\ TeoIdle /\ NubIdle
    /\ MultiIdle /\ CompIdle /\ AnaIdle

SpecSoc == InitSoc /\ [][SocNext]_vars

InitBanco == SocIdle /\ BancoInit /\ RachasIdle /\ TeoIdle /\ NubIdle
    /\ MultiIdle /\ CompIdle /\ AnaIdle

SpecBanco == InitBanco /\ [][BancoNext]_vars

InitRachas == SocIdle /\ BancoIdle /\ RachasInit /\ TeoIdle /\ NubIdle
    /\ MultiIdle /\ CompIdle /\ AnaIdle

SpecRachas == InitRachas /\ [][RachasNext]_vars

InitTeorica == SocIdle /\ BancoIdle /\ RachasIdle /\ TeoInit /\ NubIdle
    /\ MultiIdle /\ CompIdle /\ AnaIdle

SpecTeorica == InitTeorica /\ [][TeoNext]_vars

InitNubosidad == SocIdle /\ BancoIdle /\ RachasIdle /\ TeoIdle /\ NubInit
    /\ MultiIdle /\ CompIdle /\ AnaIdle

SpecNubosidad == InitNubosidad /\ [][NubNext]_vars

InitMultiDia == SocIdle /\ BancoIdle /\ RachasIdle /\ TeoIdle /\ NubIdle
    /\ MultiInit /\ CompIdle /\ AnaIdle

SpecMultiDia == InitMultiDia /\ [][MultiNext]_vars

InitAnalizador == SocIdle /\ BancoIdle /\ RachasIdle /\ TeoIdle /\ NubIdle
    /\ MultiIdle /\ CompIdle /\ AnaInit

SpecAnalizador == InitAnalizador /\ [][AnaNext]_vars

InitCompleta == SocIdle /\ BancoIdle /\ RachasIdle /\ TeoIdle /\ NubIdle
    /\ MultiIdle /\ CompInit /\ AnaIdle

SpecCompleta == InitCompleta /\ [][CompNext]_vars

(***************************************************************************)
(* Properties of simular_soc_diario (checked under SpecSoc).               *)
(***************************************************************************)
Capacidad == soc_args.capacidad_almacenamiento_wh
Piso == Mul(soc_args.soc_minimo, Capacidad)
Filas == 1..Len(resultados)

(* Stored energy before row t was computed. *)
Previa(t) ==
    IF t = 1 THEN Mul(soc_args.soc_inicial, Capacidad)
    ELSE resultados[t - 1].Energia_Bateria_Wh

(* Row t asked for more than the battery held above the floor / could take. *)
Subdesborda(t) == Lt(Sub(Previa(t), Piso), resultados[t].Energia_Descargada)
Desborda(t) == Lt(Sub(Capacidad, Previa(t)), resultados[t].Energia_Cargada)

(* C1: every recorded timestep has soc_minimo <= SOC <= 1 and              *)
(* soc_minimo x capacity <= Energia_Bateria_Wh <= capacity, whatever the   *)
(* generation/consumption imbalance.                                       *)
C1_SocAcotado ==
    \A t \in Filas :
        /\ Le(soc_args.soc_minimo, resultados[t].SOC)
        /\ Le(resultados[t].SOC, Num(1))
        /\ Le(Piso, resultados[t].Energia_Bateria_Wh)
        /\ Le(resultados[t].Energia_Bateria_Wh, Capacidad)

(* A finished run in which one row underflowed the floor and another       *)
(* overflowed the capacity before the limit was applied.                   *)
C1_Witness ==
    /\ soc_pc = "return"
    /\ Le(soc_args.soc_minimo, soc_args.soc_inicial)
    /\ \E t \in Filas : Subdesborda(t)
    /\ \E t \in Filas : Desborda(t)

(* C2: every row has balance = generation - consumption and its stored     *)
(* energy is derived from the previous row's limited stored energy and     *)
(* that balance alone: balance > 0 charges balance x eficiencia_carga and  *)
(* discharges 0; otherwise (balance = 0 included) it discharges            *)
(* |balance| / eficiencia_descarga and charges 0; the result is limited to *)
(* [soc_minimo x capacity, capacity].  The loop variable energia_bateria   *)
(* is the last row's stored energy.                                        *)
C2_PasoSecuencial ==
    /\ soc_pc # "idle" =>
           energia_bateria = IF resultados = <<>>
                             THEN Mul(soc_args.soc_inicial, Capacidad)
                             ELSE resultados[Len(resultados)].Energia_Bateria_Wh
    /\ \A t \in Filas :
           LET r == resultados[t]
               bruta == IF Lt(Zero, r.Balance_Energetico)
                        THEN Add(Previa(t), r.Energia_Cargada)
                        ELSE Sub(Previa(t), r.Energia_Descargada)
           IN  /\ r.Balance_Energetico = Sub(r.Generacion_PV, r.Consumo)
               /\ IF Lt(Zero, r.Balance_Energetico)
                  THEN /\ r.Energia_Cargada =
                              Mul(r.Balance_Energetico, soc_args.eficiencia_carga)
                       /\ r.Energia_Descargada = Zero
                  ELSE /\ Mul(r.Energia_Descargada, soc_args.eficiencia_descarga) =
                              FAbs(r.Balance_Energetico)
                       /\ r.Energia_Cargada = Zero
               /\ r.Energia_Bateria_Wh = FMax(Piso, FMin(Capacidad, bruta))
               /\ r.SOC = Div(r.Energia_Bateria_Wh, Capacidad)

(* A run whose rows include a charge, a deficit and a zero balance, the    *)
(* first two kept inside the limits.                                       *)
C2_Witness ==
    /\ Len(resultados) = 3
    /\ \E t \in Filas : Lt(Zero, resultados[t].Balance_Energetico) /\ ~Desborda(t)
    /\ \E t \in Filas : Lt(resultados[t].Balance_Energetico, Zero) /\ ~Subdesborda(t)
    /\ \E t \in Filas : resultados[t].Balance_Energetico = Zero

(* The scenario of the specification: 1000 Wh, full, floor 0.2, discharge  *)
(* efficiency 0.9, a first step with generation 0 W and consumption 2000 W.*)
EscenarioDescarga ==
    /\ Capacidad = Num(1000)
    /\ soc_args.soc_inicial = Num(1)
    /\ soc_args.soc_minimo = Frac(1, 5)
    /\ soc_args.eficiencia_descarga = Frac(9, 10)
    /\ Len(resultados) >= 1
    /\ resultados[1].Generacion_PV = Num(0)
    /\ resultados[1].Consumo = Num(2000)

(* C3: a step whose discharge exceeds the energy above the floor ends      *)
(* exactly at soc_minimo x capacity (not lower, not negative), a step      *)
(* whose charge exceeds the free headroom ends exactly at capacity, and    *)
(* the scenario above ends at 200 Wh, SOC 0.2.                             *)
C3_SaturacionExacta ==
    /\ \A t \in Filas :
           /\ Subdesborda(t) =>
                  /\ resultados[t].Energia_Bateria_Wh = Piso
                  /\ Le(Zero, resultados[t].Energia_Bateria_Wh)
           /\ Desborda(t) => resultados[t].Energia_Bateria_Wh = Capacidad
    /\ EscenarioDescarga =>
           /\ resultados[1].Energia_Bateria_Wh = Num(200)
           /\ resultados[1].SOC = Frac(1, 5)
           /\ Lt(Num(2222), resultados[1].Energia_Descargada)

(* The scenario followed by a step that overflows the capacity. *)
C3_Witness ==
    /\ EscenarioDescarga
    /\ Subdesborda(1)
    /\ Len(resultados) >= 2
    /\ Desborda(2)

(* C4: series of different lengths are rejected before any timestep is    *)
(* simulated: no row is ever produced and the call never returns a trace.  *)
C4_LongitudesDistintasRechazadas ==
    soc_pc # "idle" /\ soc_args.len_generacion # soc_args.len_demanda =>
        /\ resultados = <<>>
        /\ soc_pc # "return"
(***************************************************************************)
(* Properties of calcular_banco_baterias (checked under SpecBanco).        *)
(***************************************************************************)
(* The argument ranges the function documents: positive voltages and unit  *)
(* capacity, depth of discharge in (0, 1].                                 *)
ArgsValidos ==
    /\ Lt(Zero, banco_args.voltaje_sistema)
    /\ Lt(Zero, banco_args.profundidad_descarga)
    /\ Le(banco_args.profundidad_descarga, Num(1))
    /\ Lt(Zero, banco_args.voltaje_bateria)
    /\ Lt(Zero, banco_args.capacidad_bateria_ah)

EnergiaRequeridaKwh ==
    Div(Mul(banco_args.energia_diaria_kwh, Num(banco_args.dias_autonomia)),
        banco_args.profundidad_descarga)

(* C5: "Capacidad Total [Ah]" is (energia x 1000 x dias) / (voltaje x DoD)  *)
(* and the four sizing inputs are returned unchanged.                      *)
C5_CapacidadTotal ==
    banco_pc = "return" /\ ArgsValidos =>
        /\ Mul(banco_resultados.capacidad_total_ah,
               Mul(banco_args.voltaje_sistema, banco_args.profundidad_descarga))
             = Mul(banco_args.energia_diaria_kwh, Num(1000 * banco_args.dias_autonomia))
        /\ banco_resultados.energia_diaria_kwh = banco_args.energia_diaria_kwh
        /\ banco_resultados.dias_autonomia = banco_args.dias_autonomia
        /\ banco_resultados.voltaje_sistema = banco_args.voltaje_sistema
        /\ banco_resultados.profundidad_descarga = banco_args.profundidad_descarga

(* The example of the script: 10 kWh, 2 days, 48 V, DoD 0.8 -> 520.83 Ah. *)
C5_Witness ==
    /\ banco_pc = "return"
    /\ ArgsValidos
    /\ banco_args.dias_autonomia = 2
    /\ banco_resultados.capacidad_total_ah = Frac(3125, 6)

C7_TotalEsSeriePorParalelo ==
    banco_pc = "return" /\ ArgsValidos =>
        /\ banco_resultados.num_serie =
               Round(Div(banco_args.voltaje_sistema, banco_args.voltaje_bateria))
        /\ banco_resultados.num_paralelo =
               Round(Div(banco_resultados.capacidad_total_ah, banco_args.capacidad_bateria_ah))
        /\ banco_resultados.total_baterias =
               banco_resultados.num_serie * banco_resultados.num_paralelo

(* C8: the realized capacity in kWh is the reported integer total x        *)
(* capacidad_bateria_ah x voltaje_bateria / 1000.                          *)
C8_CapacidadDeBateriasEnteras ==
    banco_pc = "return" /\ ArgsValidos =>
        Mul(banco_resultados.capacidad_real_kwh, Num(1000)) =
            Mul(Mul(Num(banco_resultados.total_baterias), banco_args.capacidad_bateria_ah),
                banco_args.voltaje_bateria)

(* C9: a call with a non-positive voltage, unit capacity or depth of       *)
(* discharge, or a depth of discharge above 1, is rejected and never       *)
(* returns; no returned count is negative.                                 *)
C9_RechazaArgumentosInvalidos ==
    banco_pc = "return" =>
        /\ ArgsValidos
        /\ banco_resultados.num_serie >= 0
        /\ banco_resultados.num_paralelo >= 0
        /\ banco_resultados.total_baterias >= 0

(***************************************************************************)
(* Properties of encontrar_rachas (checked under SpecRachas).              *)
(***************************************************************************)
TodasLasRachas ==
    {<<"Muy nuboso", k>> : k \in 1..Len(rachas.muy_nuboso)} \cup
    {<<"Parcialmente nuboso", k>> : k \in 1..Len(rachas.parcialmente_nuboso)} \cup
    {<<"Despejado", k>> : k \in 1..Len(rachas.despejado)}

Racha(id) ==
    IF id[1] = "Muy nuboso" THEN rachas.muy_nuboso[id[2]]
    ELSE IF id[1] = "Parcialmente nuboso" THEN rachas.parcialmente_nuboso[id[2]]
    ELSE rachas.despejado[id[2]]

Contiene(id, dia) == \E j \in 1..Len(Racha(id)) : Racha(id)[j] = dia

RECURSIVE SumaLongitudes(_)
SumaLongitudes(ids) ==
    IF ids = {} THEN 0
    ELSE LET id == CHOOSE x \in ids : TRUE
         IN  Len(Racha(id)) + SumaLongitudes(ids \ {id})

(* C10: the runs of the three labels partition the day indices 0..N-1:     *)
(* each index lies in exactly one run and the run lengths sum to N, each   *)
(* run is a non-empty stretch of consecutive indices carrying its label,   *)
(* and two adjacent days with the same label lie in the same run.          *)
C10_RachasParticionan ==
    rachas_pc = "return" =>
        LET N == Len(clasificacion)
        IN  /\ \A dia \in 0..(N - 1) :
                   Cardinality({id \in TodasLasRachas : Contiene(id, dia)}) = 1
            /\ SumaLongitudes(TodasLasRachas) = N
            /\ \A id \in TodasLasRachas :
                   /\ Racha(id) # <<>>
                   /\ \A j \in 1..Len(Racha(id)) :
                          /\ Racha(id)[j] \in 0..(N - 1)
                          /\ clasificacion[Racha(id)[j] + 1] = id[1]
                          /\ j > 1 => Racha(id)[j] = Racha(id)[j - 1] + 1
            /\ \A dia \in 0..(N - 2) :
                   clasificacion[dia + 1] = clasificacion[dia + 2] =>
                       \E id \in TodasLasRachas : Contiene(id, dia) /\ Contiene(id, dia + 1)

(* A series with two separate very-cloudy runs, one of them of two days,   *)
(* the second one open at the end of the series.                           *)
C10_Witness ==
    /\ rachas_pc = "return"
    /\ Len(rachas.muy_nuboso) = 2
    /\ Len(rachas.muy_nuboso[1]) = 2
    /\ clasificacion[Len(clasificacion)] = "Muy nuboso"

(***************************************************************************)
(* Properties of analizar_resultados_soc (checked under SpecSoc).          *)
(***************************************************************************)
(* C18: the critical-timestep count is the number of timesteps whose SOC   *)
(* is strictly below the critical threshold the caller configured, 0.3     *)
(* by default.                                                             *)
C18_HorasCriticasBajoUmbral ==
    analisis # <<>> =>
        analisis.Horas_Criticas =
            Cardinality({t \in Filas : Lt(resultados[t].SOC, umbral_critico)})

(* C19: Eficiencia_Sistema is total discharged over total charged when     *)
(* something was charged and 0 otherwise, and the two kWh totals of the    *)
(* analysis equal those simular_soc_diario attached to the trace.          *)
C19_EficienciaYTotales ==
    analisis # <<>> =>
        /\ analisis.Energia_Cargada_kWh = attrs.energia_cargada_total_kwh
        /\ analisis.Energia_Descargada_kWh = attrs.energia_descargada_total_kwh
        /\ analisis.Energia_Cargada_kWh = Div(energia_cargada_total, Num(1000))
        /\ IF Lt(Zero, energia_cargada_total)
           THEN analisis.Eficiencia_Sistema =
                    Div(energia_descargada_total, energia_cargada_total)
           ELSE analisis.Eficiencia_Sistema = Zero

(* A trace that charged and discharged, analysed. *)
C19_Witness ==
    /\ analisis # <<>>
    /\ Lt(Zero, energia_cargada_total)
    /\ Lt(Zero, energia_descargada_total)
    /\ analisis.Eficiencia_Sistema = Div(energia_descargada_total, energia_cargada_total)
    /\ analisis.Energia_Cargada_kWh = attrs.energia_cargada_total_kwh

(* C20: an empty generation or consumption series is rejected before       *)
(* anything is computed: no result or attrs are built and no error comes   *)
(* out of the statistics or of the row access.                             *)
C20_SerieVaciaRechazada ==
    (soc_args.len_generacion = 0 \/ soc_args.len_demanda = 0) =>
        /\ attrs = <<>>
        /\ soc_pc \notin {"ValueError", "IndexError", "return"}

(***************************************************************************)
(* Properties of the autonomy recommendation (checked under SpecRachas).   *)
(***************************************************************************)
Dias == 1..Len(clasificacion)
HayMuyNuboso == \E k \in Dias : clasificacion[k] = "Muy nuboso"

(* Days a..b are a maximal stretch of very-cloudy days. *)
TramoMuyNuboso(a, b) ==
    /\ a <= b
    /\ \A k \in a..b : clasificacion[k] = "Muy nuboso"
    /\ a = 1 \/ clasificacion[a - 1] # "Muy nuboso"
    /\ b = Len(clasificacion) \/ clasificacion[b + 1] # "Muy nuboso"

Salidas == {"consola", "reporte", "grafico"}

EjemploCincoDias ==
    <<"Despejado", "Muy nuboso", "Muy nuboso", "Parcialmente nuboso", "Muy nuboso">>

(* C11: with at least one very-cloudy day, dias_consecutivos_max is the    *)
(* length of the longest maximal stretch of very-cloudy days, fecha_inicio *)
(* and fecha_fin are the dates of the first and last day of one such       *)
(* stretch, and the autonomy any output recommends is that length plus     *)
(* one; the five-day example gives runs of lengths 2 and 1, longest 2,     *)
(* autonomy 3.                                                             *)
C11_RachaMasLargaYAutonomia ==
    (rachas_pc = "return" /\ HayMuyNuboso) =>
        /\ \E a, b \in Dias :
               /\ TramoMuyNuboso(a, b)
               /\ racha_maxima.dias_consecutivos_max = b - a + 1
               /\ racha_maxima.fecha_inicio = fechas[a]
               /\ racha_maxima.fecha_fin = fechas[b]
        /\ \A a, b \in Dias :
               TramoMuyNuboso(a, b) => b - a + 1 <= racha_maxima.dias_consecutivos_max
        /\ autonomia.consola = <<racha_maxima.dias_consecutivos_max + 1>>
        /\ \A salida \in Salidas :
               autonomia[salida] \in {<<>>, <<racha_maxima.dias_consecutivos_max + 1>>}
        /\ clasificacion = EjemploCincoDias =>
               /\ Len(rachas.muy_nuboso) = 2
               /\ Len(rachas.muy_nuboso[1]) = 2
               /\ Len(rachas.muy_nuboso[2]) = 1
               /\ racha_maxima.dias_consecutivos_max = 2
               /\ autonomia.consola = <<3>>

(* The five-day example analysed, its dates with a gap before the run. *)
C11_Witness ==
    /\ rachas_pc = "return"
    /\ clasificacion = EjemploCincoDias
    /\ racha_maxima.dias_consecutivos_max = 2
    /\ racha_maxima.fecha_inicio = 3
    /\ racha_maxima.fecha_fin = 4
    /\ autonomia.consola = <<3>>

(* C12: without a very-cloudy day every output that states a recommended   *)
(* autonomy gives the standard 2-3 days, none gives 0 + 1 = 1 day.         *)
C12_SinMuyNubosoRecomiendaEstandar ==
    (rachas_pc = "return" /\ ~HayMuyNuboso) =>
        \A salida \in Salidas : autonomia[salida] \in {<<>>, <<2, 3>>}

RachasDe(e) ==
    IF e = "Muy nuboso" THEN rachas.muy_nuboso
    ELSE IF e = "Parcialmente nuboso" THEN rachas.parcialmente_nuboso
    ELSE rachas.despejado

(* C13: a label no day carries has an empty run list; without a            *)
(* very-cloudy day the analysis still returns, with dias_consecutivos_max  *)
(* 0 and both dates None; no run of any label is empty.                    *)
C13_EtiquetaAusente ==
    rachas_pc = "return" =>
        /\ \A e \in Etiquetas :
               (\A k \in Dias : clasificacion[k] # e) => RachasDe(e) = <<>>
        /\ ~HayMuyNuboso =>
               /\ rachas.muy_nuboso = <<>>
               /\ racha_maxima = [dias_consecutivos_max |-> 0,
                                   fecha_inicio |-> None, fecha_fin |-> None]
        /\ \A id \in TodasLasRachas : Len(Racha(id)) >= 1

(* Two days, none of them very cloudy and none partly cloudy, analysed. *)
C13_Witness ==
    /\ rachas_pc = "return"
    /\ clasificacion = <<"Despejado", "Despejado">>
    /\ rachas.muy_nuboso = <<>>
    /\ rachas.parcialmente_nuboso = <<>>
    /\ racha_maxima.dias_consecutivos_max = 0
    /\ racha_maxima.fecha_inicio = None

(***************************************************************************)
(* Properties of the clearness index and of the daily classification       *)
(* (checked under SpecNubosidad).                                          *)
(***************************************************************************)
Registros == 1..Len(clasificacion_diaria)
FilasDatos == 1..Len(datos)
HayColumnaIndice == nub_pc \in {"indice", "clasificado"}

IndiceAcotado(k) ==
    /\ Le(Zero, indice_claridad[k])
    /\ Le(indice_claridad[k], Frac(12, 10))
    /\ Lt(Zero, datos[k].ghi_teorico) =>
           indice_claridad[k] = FMin(Div(datos[k].ghi, datos[k].ghi_teorico), Frac(12, 10))

(* C15, as stated: the index lies in [0, 1.2], is min(observed /           *)
(* theoretical, 1.2) for a positive theoretical irradiance, and is 0       *)
(* exactly when the theoretical irradiance is 0.                           *)
C15_IndiceCeroSoloSinTeorica ==
    HayColumnaIndice =>
        \A k \in FilasDatos :
            /\ IndiceAcotado(k)
            /\ indice_claridad[k] = Zero <=> datos[k].ghi_teorico = Zero

(* C15, amended: the index lies in [0, 1.2], is min(observed /             *)
(* theoretical, 1.2) for a positive theoretical irradiance and 0 for a     *)
(* theoretical irradiance of 0; it is 0 exactly when the theoretical or    *)
(* the observed irradiance is 0.                                           *)
C15_IndiceClaridad ==
    HayColumnaIndice =>
        \A k \in FilasDatos :
            /\ IndiceAcotado(k)
            /\ datos[k].ghi_teorico = Zero => indice_claridad[k] = Zero
            /\ indice_claridad[k] = Zero <=>
                   (datos[k].ghi_teorico = Zero \/ datos[k].ghi = Zero)

(* A dark sample under a risen sun, a sample brighter than 1.2 times the   *)
(* clear sky, and a bright sample with no theoretical irradiance.          *)
C15_Witness ==
    /\ nub_pc = "indice"
    /\ Len(datos) = 3
    /\ datos[1].ghi = Zero /\ Lt(Zero, datos[1].ghi_teorico)
    /\ indice_claridad[1] = Zero
    /\ datos[2].ghi = Num(1300) /\ datos[2].ghi_teorico = Num(1000)
    /\ indice_claridad[2] = Frac(12, 10)
    /\ datos[3].ghi = Num(700) /\ datos[3].ghi_teorico = Zero
    /\ indice_claridad[3] = Zero

(* C16 (checked under SpecTeorica): the function returns, with one         *)
(* irradiance per sample, none negative, and exactly 0 wherever the        *)
(* cosine of the zenith angle before the clamp is <= 0; the air mass of    *)
(* a sample with cosine 0 is 0, never the reciprocal of 0.                 *)
C16_RadiacionNoNegativa ==
    /\ teo_pc \in {"call", "return"}
    /\ teo_pc = "return" =>
           /\ Len(radiacion) = Len(geometria)
           /\ \A k \in 1..Len(geometria) :
                  /\ Le(Zero, radiacion[k].ghi_teorico)
                  /\ Le(CosZenitalBruto(geometria[k]), Zero) =>
                         radiacion[k].ghi_teorico = Zero
                  /\ radiacion[k].masa_aire # Inf
                  /\ radiacion[k].cos_zenital = Zero => radiacion[k].masa_aire = Zero

(* The sun exactly on the horizon, and a night. *)
C16_Witness ==
    /\ teo_pc = "return"
    /\ Len(geometria) = 2
    /\ CosZenitalBruto(geometria[1]) = Zero
    /\ radiacion[1].ghi_teorico = Zero
    /\ Lt(CosZenitalBruto(geometria[2]), Zero)
    /\ geometria[2].declinacion # Equinoccio
    /\ radiacion[2].ghi_teorico = Zero

DiasConLuz == {datos[k].mes_dia : k \in {j \in FilasDatos : Lt(Zero, datos[j].ghi)}}
ClaveRegistro(n) == <<clasificacion_diaria[n].mes, clasificacion_diaria[n].dia>>

(* C17: a classified day's mean is taken over exactly its samples with     *)
(* ghi > 0; a day without such a sample has no record; there is one        *)
(* record for each (mes, dia) with a daylight sample and no other.         *)
C17_SoloMuestrasConLuz ==
    nub_pc = "clasificado" =>
        /\ Len(clasificacion_diaria) = Cardinality(DiasConLuz)
        /\ \A n \in Registros :
               /\ ClaveRegistro(n) \in DiasConLuz
               /\ \A m \in Registros : ClaveRegistro(m) = ClaveRegistro(n) => m = n
               /\ clasificacion_diaria[n].indice_claridad_prom =
                      Redondear3(Media(indice_claridad,
                          {k \in FilasDatos : /\ datos[k].mes_dia = ClaveRegistro(n)
                                              /\ Lt(Zero, datos[k].ghi)}))

(* One day with a dark sample only, the other with a dark and a bright     *)
(* sample: one record, whose mean is that of the bright sample.            *)
C17_Witness ==
    /\ nub_pc = "clasificado"
    /\ Len(datos) = 3
    /\ datos[1].mes_dia = <<1, 31>> /\ datos[1].ghi = Zero
    /\ datos[2].mes_dia = <<2, 1>> /\ datos[2].ghi = Zero
    /\ datos[2].ghi_teorico = Num(1000)
    /\ datos[3].mes_dia = <<2, 1>> /\ datos[3].ghi = Num(700)
    /\ datos[3].ghi_teorico = Num(1000)
    /\ Len(clasificacion_diaria) = 1
    /\ ClaveRegistro(1) = <<2, 1>>
    /\ clasificacion_diaria[1].indice_claridad_prom = Frac(7, 10)

(***************************************************************************)
(* Properties of simular_soc_multiple_dias (checked under SpecMultiDia).   *)
(***************************************************************************)
FilasMulti == multi_resultados.filas
HorasPorDia == Len(multi_args.generacion_df)

(* Stored energy before row t of the multi-day trace was computed. *)
PreviaMulti(t) ==
    IF t = 1
    THEN Mul(multi_args.soc_inicial, multi_args.capacidad_almacenamiento_wh)
    ELSE FilasMulti[t - 1].Energia_Bateria_Wh

(* Row t as one step of the hourly recurrence on hour h of the one-day     *)
(* series, started from the energy e.                                      *)
EsPasoDesde(t, h, e) ==
    LET r == FilasMulti[t]
        balance == Sub(multi_args.generacion_df[h], multi_args.demanda_df[h])
        bruta == IF Lt(Zero, balance)
                 THEN Add(e, Mul(balance, multi_args.eficiencia_carga))
                 ELSE Sub(e, Div(FAbs(balance), multi_args.eficiencia_descarga))
    IN  /\ r.Generacion_PV = multi_args.generacion_df[h]
        /\ r.Consumo = multi_args.demanda_df[h]
        /\ r.Energia_Bateria_Wh =
               FMax(Mul(multi_args.soc_minimo, multi_args.capacidad_almacenamiento_wh),
                    FMin(multi_args.capacidad_almacenamiento_wh, bruta))
        /\ r.SOC = Div(r.Energia_Bateria_Wh, multi_args.capacidad_almacenamiento_wh)

(* C21: the frame simular_soc_multiple_dias returns has num_dias x         *)
(* len(gen) rows; row t is the hourly step on hour (t - 1) mod len(gen) of *)
(* the one-day series, started from the limited stored energy of row       *)
(* t - 1, also across the end of a day, and from soc_inicial x capacity    *)
(* only for the first row; for num_dias = 1 its SOC column is that of      *)
(* simular_soc_diario on the one-day series.                               *)
C21_DiasSeguidos ==
    multi_pc = "return" =>
        /\ Len(FilasMulti) = multi_args.num_dias * HorasPorDia
        /\ Len(multi_resultados.index) = Len(FilasMulti)
        /\ \A t \in 1..Len(FilasMulti) :
               /\ EsPasoDesde(t, ((t - 1) % HorasPorDia) + 1, PreviaMulti(t))
               /\ multi_resultados.index[t] =
                      <<((t - 1) \div HorasPorDia) + 1, (t - 1) % HorasPorDia>>
        /\ multi_args.num_dias = 1 =>
               Columna(FilasMulti, "SOC") =
                   Columna(simular_soc_diario(multi_args.generacion_df,
                                              multi_args.demanda_df, multi_args).filas, "SOC")

(* Two days of two hours whose second day starts from a stored energy      *)
(* other than soc_inicial x capacity and so differs from the first.        *)
C21_Witness ==
    /\ multi_pc = "return"
    /\ multi_args.num_dias = 2
    /\ HorasPorDia = 2
    /\ PreviaMulti(3) # PreviaMulti(1)
    /\ FilasMulti[3].Energia_Bateria_Wh # FilasMulti[1].Energia_Bateria_Wh

(***************************************************************************)
(* Properties of AnalizadorNubosidad (checked under SpecAnalizador).       *)
(***************************************************************************)
UltimaLlamada == llamadas[Len(llamadas)]
Calculado(hechos, metodo) == \E k \in 1..Len(hechos) : hechos[k] = metodo
Veces(hechos, metodo) == Cardinality({k \in 1..Len(hechos) : hechos[k] = metodo})

OrdenCompleto ==
    <<"cargar_datos", "calcular_radiacion_teorica", "calcular_indice_claridad",
      "clasificar_dias", "analizar_rachas_consecutivas", "encontrar_dias_extremos",
      "generar_graficos_completos", "generar_reporte_completo">>

(* One call on a loaded analizador, by what it found and what it computed. *)
PasoPerezoso ==
    LET metodo == llamadas'[Len(llamadas')]
        hechos == analizador'.calculos
    IN  /\ analizador.datos.cargado =>
               /\ metodo = "analizar_rachas_consecutivas" =>
                      (Calculado(hechos, "clasificar_dias")
                           <=> analizador.clasificacion_diaria = <<>>)
               /\ metodo \in {"clasificar_dias", "analizar_rachas_consecutivas"}
                      /\ Calculado(hechos, "clasificar_dias") =>
                      (Calculado(hechos, "calcular_indice_claridad")
                           <=> analizador.datos.indice_claridad = <<>>)
               /\ metodo \in {"calcular_indice_claridad", "clasificar_dias",
                               "analizar_rachas_consecutivas"}
                      /\ Calculado(hechos, "calcular_indice_claridad") =>
                      (Calculado(hechos, "calcular_radiacion_teorica")
                           <=> analizador.datos.ghi_teorico = <<>>)
        /\ metodo = "ejecutar_analisis_completo" =>
               /\ hechos = OrdenCompleto
               /\ analizador'.excepcion = ""
        /\ \A m \in {OrdenCompleto[k] : k \in 1..Len(OrdenCompleto)} : Veces(hechos, m) <= 1

(* C22: on a loaded analizador, analizar_rachas_consecutivas computes the  *)
(* classification exactly when clasificacion_diaria is absent,             *)
(* clasificar_dias computes the clearness index exactly when that column   *)
(* is absent, and calcular_indice_claridad computes the theoretical        *)
(* irradiance exactly when ghi_teorico is absent; ejecutar_analisis_       *)
(* completo computes load, theoretical irradiance, clearness index,        *)
(* classification, runs, extremes, plots and report in this order, and no  *)
(* call computes a stage twice.                                            *)
C22_PrerrequisitosPerezosos == [][PasoPerezoso]_vars

(* The complete analysis run on an analizador whose earlier call of        *)
(* analizar_rachas_consecutivas had to compute every prerequisite.         *)
C22_Witness ==
    /\ llamadas = <<"cargar_datos", "analizar_rachas_consecutivas",
                    "ejecutar_analisis_completo">>
    /\ analizador.calculos = OrdenCompleto

(* One call other than clasificar_dias (which ejecutar_analisis_completo   *)
(* also calls, line 759) on an analizador that holds a classification.     *)
PasoSinReclasificar ==
    LET metodo == llamadas'[Len(llamadas')]
    IN  analizador.clasificacion_diaria # <<>>
            /\ metodo \notin {"clasificar_dias", "ejecutar_analisis_completo"} =>
            /\ analizador'.clasificacion_diaria # <<>>
            /\ analizador'.clasificacion_diaria[1].de = analizador.clasificacion_diaria[1].de
            /\ ~Calculado(analizador'.calculos, "clasificar_dias")
            /\ Calculado(analizador'.calculos, "analizar_rachas_consecutivas") =>
                   analizador'.rachas_muy_nuboso = <<analizador.clasificacion_diaria[1].de>>
            /\ Calculado(analizador'.calculos, "encontrar_dias_extremos") =>
                   analizador'.dia_mas_nuboso = <<analizador.clasificacion_diaria[1].de>>

(* C25: once clasificacion_diaria exists, a call of any method other than  *)
(* clasificar_dias leaves the days and labels it holds as they were, also  *)
(* when the data were reloaded or the columns recomputed since, and the    *)
(* runs and the extreme days computed by such a call are those of the      *)
(* classification held.                                                    *)
C25_ClasificacionSoloPorClasificarDias == [][PasoSinReclasificar]_vars

(* Runs computed from a classification of the first load after the file    *)
(* was loaded a second time.                                               *)
C25_Witness ==
    /\ Len(llamadas) >= 1
    /\ UltimaLlamada = "analizar_rachas_consecutivas"
    /\ analizador.datos.archivo = 2
    /\ analizador.clasificacion_diaria # <<>>
    /\ analizador.clasificacion_diaria[1].de.archivo = 1
    /\ analizador.rachas_muy_nuboso = <<analizador.clasificacion_diaria[1].de>>

(***************************************************************************)
(* Further properties of simular_soc_diario (checked under SpecSoc).       *)
(***************************************************************************)
(* What row t asked to move and what the stored energy moved by. *)
Pedido(t) == Add(resultados[t].Energia_Cargada, resultados[t].Energia_Descargada)
Cambio(t) == FAbs(Sub(resultados[t].Energia_Bateria_Wh, Previa(t)))

SoloDeficit(s, t) == \A u \in (s + 1)..t : Le(resultados[u].Balance_Energetico, Zero)
SoloExceso(s, t) == \A u \in (s + 1)..t : Lt(Zero, resultados[u].Balance_Energetico)

(* C24: with 0 <= soc_minimo <= soc_inicial <= 1 the stored energy never   *)
(* decreases in a row with balance > 0 and never increases in a row with   *)
(* balance <= 0; from a row that ended at the floor it stays at the floor  *)
(* through every following row while all of them have balance <= 0, and    *)
(* from a row that ended at capacity it stays at capacity while all of     *)
(* them have balance > 0.                                                  *)
C24_MonotoniaYSaturacion ==
    soc_pc # "idle"
        /\ Le(Zero, soc_args.soc_minimo)
        /\ Le(soc_args.soc_minimo, soc_args.soc_inicial)
        /\ Le(soc_args.soc_inicial, Num(1)) =>
        /\ \A t \in Filas :
               IF Lt(Zero, resultados[t].Balance_Energetico)
               THEN Le(Previa(t), resultados[t].Energia_Bateria_Wh)
               ELSE Le(resultados[t].Energia_Bateria_Wh, Previa(t))
        /\ \A s \in Filas : \A t \in Filas :
               s < t =>
                   /\ resultados[s].Energia_Bateria_Wh = Piso /\ SoloDeficit(s, t) =>
                          resultados[t].Energia_Bateria_Wh = Piso
                   /\ resultados[s].Energia_Bateria_Wh = Capacidad /\ SoloExceso(s, t) =>
                          resultados[t].Energia_Bateria_Wh = Capacidad

(* Three rows: a deficit takes the battery from above the floor down to    *)
(* it, a second deficit leaves it there, then an excess raises it.         *)
C24_Witness ==
    /\ Len(resultados) = 3
    /\ Lt(Piso, Previa(1))
    /\ resultados[1].Energia_Bateria_Wh = Piso
    /\ Lt(resultados[2].Balance_Energetico, Zero)
    /\ resultados[2].Energia_Bateria_Wh = Piso
    /\ Lt(Zero, resultados[3].Balance_Energetico)
    /\ Lt(Piso, resultados[3].Energia_Bateria_Wh)

(***************************************************************************)
(* Properties of analizar_dia_especifico (checked under SpecNubosidad).    *)
(***************************************************************************)
(* C26: for every (mes, dia) with a record in clasificacion_diaria, that   *)
(* is with daylight samples, analizar_dia_especifico returns the label of  *)
(* that record.                                                            *)
C26_MismaEtiquetaQueClasificarDias ==
    nub_pc = "clasificado" /\ dia_especifico # <<>> =>
        \A n \in Registros :
            ClaveRegistro(n) = <<dia_especifico.mes, dia_especifico.dia>> =>
                /\ dia_especifico.retorno # <<>>
                /\ dia_especifico.retorno[1].clasificacion =
                       clasificacion_diaria[n].clasificacion

(***************************************************************************)
(* Runs and the end of the year (checked under SpecRachas).  The dates of  *)
(* the model run from 1, standing for 1 January, to MaxFecha, standing for *)
(* 31 December.                                                            *)
(***************************************************************************)
PrimeroDeEnero == 1
TreintaYUnoDeDiciembre == MaxFecha

(* The classified days include 1 January and 31 December, both very cloudy. *)
ExtremosDelAnoMuyNubosos ==
    /\ clasificacion # <<>>
    /\ fechas[1] = PrimeroDeEnero
    /\ fechas[Len(fechas)] = TreintaYUnoDeDiciembre
    /\ clasificacion[1] = "Muy nuboso"
    /\ clasificacion[Len(clasificacion)] = "Muy nuboso"

(* The first and the last position of the sequence lie in one run. *)
ExtremosEnUnaRacha ==
    \E id \in TodasLasRachas : Contiene(id, 0) /\ Contiene(id, Len(clasificacion) - 1)

(* The positions of a run are consecutive and increasing, its dates too,   *)
(* and the longest very-cloudy run is no longer than the sequence.         *)
RachasSobreLaSecuencia ==
    /\ \A k \in 1..(Len(fechas) - 1) : fechas[k] < fechas[k + 1]
    /\ \A id \in TodasLasRachas :
           /\ \A j \in 1..(Len(Racha(id)) - 1) : Racha(id)[j + 1] = Racha(id)[j] + 1
           /\ fechas[Racha(id)[1] + 1] <= fechas[Racha(id)[Len(Racha(id))] + 1]
    /\ racha_maxima.dias_consecutivos_max <= Len(clasificacion)

(* C27, as stated: runs are stretches of consecutive positions of the      *)
(* classified days in date order, dias_consecutivos_max is at most the     *)
(* number of classified days, and a very-cloudy 31 December and a          *)
(* very-cloudy 1 January always lie in two different runs.                 *)
C27_ExtremosSiempreEnRachasDistintas ==
    rachas_pc = "return" =>
        /\ RachasSobreLaSecuencia
        /\ ExtremosDelAnoMuyNubosos => ~ExtremosEnUnaRacha

(* C27, amended: runs are stretches of consecutive positions of the        *)
(* classified days in date order, never continued from the last position   *)
(* to the first, dias_consecutivos_max is at most the number of classified *)
(* days, and a very-cloudy 31 December and a very-cloudy 1 January lie in  *)
(* two different runs unless every classified day is very cloudy, in which *)
(* case the one run is the whole sequence.                                 *)
C27_RachasNoDanLaVuelta ==
    rachas_pc = "return" =>
        /\ RachasSobreLaSecuencia
        /\ ExtremosDelAnoMuyNubosos =>
               (ExtremosEnUnaRacha <=> \A k \in Dias : clasificacion[k] = "Muy nuboso")

(* 1 January and 31 December very cloudy with a day of another label       *)
(* between them: two very-cloudy runs, one at each end.                    *)
C27_Witness ==
    /\ rachas_pc = "return"
    /\ ExtremosDelAnoMuyNubosos
    /\ Len(rachas.muy_nuboso) = 2
    /\ Contiene(<<"Muy nuboso", 1>>, 0)
    /\ Contiene(<<"Muy nuboso", 2>>, Len(clasificacion) - 1)
    /\ ~ExtremosEnUnaRacha

(***************************************************************************)
(* The two SOC simulators side by side (checked under SpecCompleta).       *)
(***************************************************************************)
(* simular_soc_diario called with the capacity of simular_soc in Wh,       *)
(* soc_inicial = 1.0, soc_minimo = 0.2 and both efficiencies 1.            *)
ArgsSinPerdidas ==
    [capacidad_almacenamiento_wh |-> Mul(capacidad_bateria_kwh, Num(1000)),
     soc_inicial |-> Num(1),
     soc_minimo |-> Frac(1, 5),
     eficiencia_carga |-> Num(1),
     eficiencia_descarga |-> Num(1)]

TrazaDiaria == simular_soc_diario(df_gen, df_load, ArgsSinPerdidas)

(* The SOC after a first step from a full battery, by its definition:      *)
(* generation minus consumption added, limited to [0.2, 1] x 10 kWh.       *)
SocTrasPrimerPaso ==
    LET bruta == Add(Num(10000), Sub(df_gen[1], df_load[1]))
    IN  Div(FMax(Num(2000), FMin(Num(10000), bruta)), Num(10000))

(* C28: on series of equal length simular_soc returns, and its SOC column  *)
(* is, step for step, the SOC column simular_soc_diario yields for the     *)
(* same capacity, soc_inicial = 1.0, soc_minimo = 0.2 and both             *)
(* efficiencies 1; both columns have one entry per step, the first being   *)
(* the state after the first step, not the initial state.                  *)
C28_SimuladoresCoinciden ==
    /\ (comp_pc # "idle" /\ Len(df_gen) = Len(df_load)) => comp_pc \in {"call", "return"}
    /\ comp_pc = "return" =>
           /\ Len(comp_resultados.SOC) = Len(df_gen)
           /\ df_gen # <<>> =>
                  /\ TrazaDiaria.excepcion = ""
                  /\ Columna(TrazaDiaria.filas, "SOC") = comp_resultados.SOC
                  /\ comp_resultados.SOC[1] = SocTrasPrimerPaso
                  /\ TrazaDiaria.filas[1].SOC = SocTrasPrimerPaso

(* Three steps: a deficit that the floor cuts, an excess within the        *)
(* limits, and an excess that the capacity cuts.                           *)
C28_Witness ==
    /\ comp_pc = "return"
    /\ Len(df_gen) = 3
    /\ comp_resultados.SOC[1] = soc_min
    /\ Lt(soc_min, comp_resultados.SOC[2])
    /\ Lt(comp_resultados.SOC[2], soc_max)
    /\ comp_resultados.SOC[3] = soc_max
    /\ Lt(Num(7000), Sub(df_gen[3], df_load[3]))
====
